---- MODULE Spec2Model ----
(***************************************************************************)
(* Library lending: the Loan / Book entities (src/src/models/Loan.ts), the *)
(* book, member and loan repositories over the SQLite store and the        *)
(* LoanService / LibraryService operations built on them.                  *)
(*                                                                         *)
(* Time is in milliseconds since an arbitrary origin, as a JavaScript Date *)
(* holds it.  The store keeps timestamp columns in whole seconds           *)
(* (integer(..., { mode: 'timestamp' }) in src/src/db/schema.ts).          *)
(* Money is in hundredths, so the default daily fine 0.5 is 50.            *)
(*                                                                         *)
(* A service call is a chain of storage round trips; one action models one *)
(* repository call together with the synchronous code that follows it up   *)
(* to the next await.  A synchronous stretch of code reads one clock value.*)
(*                                                                         *)
(* Twelve specifications share the state and the actions:                  *)
(*   Spec          the service calls run one at a time;                    *)
(*   ConcSpec      LoanService calls overlap at their round trips;         *)
(*   RegistrySpec  the LibraryService registrations, any arguments;        *)
(*   EntitySpec    a Loan object and its Book in memory;                   *)
(*   RepoSpec      repository calls and the LoanService reads of overdue   *)
(*                 loans, the store enforcing its foreign keys;            *)
(*   BookSpec      the Author and Book repositories, and                   *)
(*   OrphanSpec    all four repositories, the store not enforcing its      *)
(*                 foreign keys on every call;                             *)
(*   FaultSpec     the service calls, the store refusing some writes;      *)
(*   RelendSpec    one book lent to two members in turn;                   *)
(*   SetterSpec    the validated setters of the entities;                  *)
(*   OrderSpec     borrowBook on books marked through their repository;    *)
(*   EBookSpec     e-books written and read through the BookRepository.    *)
(***************************************************************************)
EXTENDS Integers, FiniteSets, Sequences, TLC

VARIABLES
    authors,   \* authors table: id -> row
    books,     \* books table: id -> row
    members,   \* members table: id -> row
    loans,     \* loans table: id -> row
    now,       \* the wall clock, ms
    tz,        \* the local time zone of the process
    calls,     \* service calls in flight: slot -> frame
    last,      \* outcome of the call that completed last
    ent,       \* a Loan entity held in memory (with its Book)
    eres       \* result of the last operation on ent

vars == <<authors, books, members, loans, now, tz, calls, last, ent, eres>>

store == <<authors, books, members, loans>>

(***************************************************************************)
(* Bounds of the model                                                     *)
(***************************************************************************)
MaxLoans == 2

(***************************************************************************)
(* Program constants                                                       *)
(***************************************************************************)
NULL == -1
LOAN_DURATION_DAYS == 14
MS_PER_SECOND == 1000
MS_PER_HOUR == 1000 * 60 * 60
MS_PER_DAY == 1000 * 60 * 60 * 24
DEFAULT_DAILY_FINE == 50

\* Inputs of the calls
Slots == {1, 2}
AuthorEmails == {"jk.rowling@example.com"}
MemberEmails == {"a@b.com"}
Isbns == {"978-0747532699", "978-0451524935"}
AuthorIds == 1 .. Cardinality(AuthorEmails) + 1
BookIds == 1 .. Cardinality(Isbns) + 1
MemberIds == 1 .. Cardinality(MemberEmails) + 1
LoanIds == 1 .. MaxLoans + 1

(***************************************************************************)
(* Dates                                                                   *)
(***************************************************************************)
\* A time zone: the local offset from UTC is `before` up to the instant
\* `at` and `after` from then on (one daylight-saving transition).
TimeZones ==
    { [before |-> 0, after |-> 0, at |-> 7 * MS_PER_DAY],
      [before |-> 0 - 5 * MS_PER_HOUR, after |-> 0 - 4 * MS_PER_HOUR,
       at |-> 7 * MS_PER_DAY],
      [before |-> 0 - 4 * MS_PER_HOUR, after |-> 0 - 5 * MS_PER_HOUR,
       at |-> 7 * MS_PER_DAY] }

\* The zones the service is run in: one without daylight saving and one
\* whose clocks go back during the loan period.
ServiceTimeZones == {z \in TimeZones : z.after <= z.before}

\* Local time value of the instant t in zone z.
LocalTime(t, z) == t + (IF t < z.at THEN z.before ELSE z.after)

\* The instant whose local time is local in zone z.  A local time that the
\* transition skips is read with the offset before the transition; one that
\* occurs twice denotes the earlier instant.
UTC(local, z) ==
    LET c1 == local - z.before
        c2 == local - z.after
    IN  IF c1 < z.at THEN c1
        ELSE IF c2 >= z.at THEN c2
        ELSE c1

\* d.setDate(d.getDate() + n): n calendar days later at the same local
\* time of day.
setDate(t, n, z) == UTC(LocalTime(t, z) + n * MS_PER_DAY, z)

\* Timestamp column, mode 'timestamp': a Date is stored as whole seconds.
mapToDriverValue(d) == IF d = NULL THEN NULL ELSE d \div MS_PER_SECOND

\* Faulty variant of mapFromDriverValue: the stored number of seconds is
\* taken for a number of milliseconds.
mapFromDriverValue_AsMillis(v) == v

\* Timestamp column, mode 'timestamp': the stored seconds are read as a Date.
mapFromDriverValue(v) == IF v = NULL THEN NULL ELSE v * MS_PER_SECOND

Abs(x) == IF x < 0 THEN 0 - x ELSE x

\* Math.ceil(a / b) for b > 0.
Ceil(a, b) == IF a % b = 0 THEN a \div b ELSE (a \div b) + 1


(***************************************************************************)
(* Entities (in-memory domain objects)                                     *)
(***************************************************************************)
\* new Author(firstName, lastName, email, _, id): the fields are taken as
\* given.
Author(firstName, lastName, email, id) ==
    [id |-> id, firstName |-> firstName, lastName |-> lastName,
     email |-> email]

\* new Member(firstName, lastName, email, _, id): the fields are taken as
\* given.
Member(firstName, lastName, email, id) ==
    [id |-> id, firstName |-> firstName, lastName |-> lastName,
     email |-> email]

\* new Book(title, isbn, author, _, _, id, available): the fields are taken
\* as given.
Book(title, isbn, author, id, available) ==
    [id |-> id, title |-> title, isbn |-> isbn, author |-> author,
     available |-> available]

\* null, where an Author, a Member or a Book is expected
NoAuthor == Author("", "", "", NULL)
NoMember == Member("", "", "", NULL)
NoBook == Book("", "", NoAuthor, NULL, FALSE)

\* Result of an operation that may throw: the value, or the error message.
Ok(v) == [error |-> "", value |-> v]
Throw(msg, v) == [error |-> msg, value |-> v]

\* Faulty variant of Book.borrow(): the flag is not cleared.
Book_borrow_KeepsAvailable(b) ==
    IF ~b.available
    THEN Throw("Book is not available for borrowing", b)
    ELSE Ok(b)

\* Book.borrow()
Book_borrow(b) ==
    IF ~b.available
    THEN Throw("Book is not available for borrowing", b)
    ELSE Ok([b EXCEPT !.available = FALSE])

\* Faulty variant of Book.return(): the flag is not set.
Book_return_NoEffect(b) == b

\* Faulty variant of Book.return(): the flag is flipped.
Book_return_Toggles(b) == [b EXCEPT !.available = ~b.available]

\* Book.return()
Book_return(b) == [b EXCEPT !.available = TRUE]

\* new Loan(book, member, loanDate, dueDate, returnDate, id), constructed
\* at clock value t in time zone z.
Loan(book, member, loanDate, dueDate, returnDate, id, t, z) ==
    LET ld == IF loanDate # NULL THEN loanDate ELSE t
    IN  [id |-> id, book |-> book, member |-> member,
         loanDate |-> ld,
         dueDate |-> IF dueDate # NULL THEN dueDate
                     ELSE setDate(ld, LOAN_DURATION_DAYS, z),
         returnDate |-> returnDate]

NoLoan ==
    [id |-> NULL, book |-> NoBook, member |-> NoMember,
     loanDate |-> NULL, dueDate |-> NULL, returnDate |-> NULL]

\* Faulty variant of Loan.isOverdue(): overdue from the due instant on.
Loan_isOverdue_FromDueInstant(l, t) ==
    IF l.returnDate # NULL THEN FALSE ELSE t >= l.dueDate

\* Loan.isOverdue() at clock value t
Loan_isOverdue(l, t) ==
    IF l.returnDate # NULL THEN FALSE ELSE t > l.dueDate

\* Faulty variant of Loan.returnBook(): no check that the loan is active.
Loan_returnBook_Unchecked(l, t) ==
    Ok([l EXCEPT !.returnDate = t, !.book = Book_return(l.book)])

\* Loan.returnBook() at clock value t
Loan_returnBook(l, t) ==
    IF l.returnDate # NULL
    THEN Throw("Book has already been returned", l)
    ELSE Ok([l EXCEPT !.returnDate = t, !.book = Book_return(l.book)])

\* Faulty variant of Loan.calculateFine: only completed days count
\* (Math.floor for Math.ceil).
Loan_calculateFine_Floor(l, dailyFine, t) ==
    LET rate == IF dailyFine = NULL THEN DEFAULT_DAILY_FINE ELSE dailyFine
    IN  IF ~Loan_isOverdue(l, t) THEN 0
        ELSE (Abs(t - l.dueDate) \div MS_PER_DAY) * rate

\* Loan.calculateFine(dailyFine) at clock value t; an omitted dailyFine
\* (NULL) takes the default.
Loan_calculateFine(l, dailyFine, t) ==
    LET rate == IF dailyFine = NULL THEN DEFAULT_DAILY_FINE ELSE dailyFine
    IN  IF ~Loan_isOverdue(l, t) THEN 0
        ELSE LET diffTime == Abs(t - l.dueDate)
                 diffDays == Ceil(diffTime, MS_PER_DAY)
             IN  diffDays * rate

\* Faulty variant of Loan.getStatus(): the due date is looked at before
\* the return date.
Loan_getStatus_DueDateFirst(l, t) ==
    IF t > l.dueDate
    THEN [status |-> "Overdue", fine |-> Loan_calculateFine(l, NULL, t)]
    ELSE IF l.returnDate # NULL THEN [status |-> "Returned", fine |-> 0]
    ELSE [status |-> "Active", fine |-> 0]

\* Loan.getStatus() at clock value t: the status and, for an overdue loan,
\* the fine the string shows (hundredths, i.e. toFixed(2)).
Loan_getStatus(l, t) ==
    IF l.returnDate # NULL THEN [status |-> "Returned", fine |-> 0]
    ELSE IF Loan_isOverdue(l, t)
    THEN [status |-> "Overdue", fine |-> Loan_calculateFine(l, NULL, t)]
    ELSE [status |-> "Active", fine |-> 0]

(***************************************************************************)
(* Rows and repositories                                                   *)
(***************************************************************************)
\* book.available = value (the public setter)
Book_setAvailable(b, value) == [b EXCEPT !.available = value]

\* Faulty variant of Book.toDatabaseRow(): the format and the file size of
\* an EBook go into the row.
Book_toDatabaseRow_KeepsPayload(b) ==
    IF "format" \in DOMAIN b
    THEN [title |-> b.title, isbn |-> b.isbn, authorId |-> b.author.id,
          available |-> b.available, format |-> b.format,
          fileSize |-> b.fileSize]
    ELSE [title |-> b.title, isbn |-> b.isbn, authorId |-> b.author.id,
          available |-> b.available]

\* Book.toDatabaseRow()
Book_toDatabaseRow(b) ==
    [title |-> b.title, isbn |-> b.isbn, authorId |-> b.author.id,
     available |-> b.available]

\* Faulty variant of Book.fromDatabaseRow: the row's available flag is not
\* passed on, so the constructor's default (true) applies.
Book_fromDatabaseRow_DefaultAvailable(id, row, author) ==
    Book(row.title, row.isbn, author, id, TRUE)

\* Book.fromDatabaseRow(row, author), the row's id given apart
Book_fromDatabaseRow(id, row, author) ==
    Book(row.title, row.isbn, author, id, row.available)

\* Author.toDatabaseRow()
Author_toDatabaseRow(a) ==
    [firstName |-> a.firstName, lastName |-> a.lastName, email |-> a.email]

\* Author.fromDatabaseRow(row), the row's id given apart
Author_fromDatabaseRow(id, row) ==
    Author(row.firstName, row.lastName, row.email, id)

\* Member.toDatabaseRow()
Member_toDatabaseRow(m) ==
    [firstName |-> m.firstName, lastName |-> m.lastName, email |-> m.email]

\* Member.fromDatabaseRow(row), the row's id given apart
Member_fromDatabaseRow(id, row) ==
    Member(row.firstName, row.lastName, row.email, id)

\* Faulty variant of Loan.toDatabaseRow(): returnDate is left out.
Loan_toDatabaseRow_NoReturnDate(l) ==
    [bookId |-> l.book.id, memberId |-> l.member.id,
     loanDate |-> mapToDriverValue(l.loanDate),
     dueDate |-> mapToDriverValue(l.dueDate),
     returnDate |-> NULL]

\* Loan.toDatabaseRow(), as the driver stores it
Loan_toDatabaseRow(l) ==
    [bookId |-> l.book.id, memberId |-> l.member.id,
     loanDate |-> mapToDriverValue(l.loanDate),
     dueDate |-> mapToDriverValue(l.dueDate),
     returnDate |-> mapToDriverValue(l.returnDate)]

\* Faulty variant of Loan.fromDatabaseRow: row.returnDate is not passed on.
Loan_fromDatabaseRow_NoReturnDate(id, row, book, member) ==
    Loan(book, member, mapFromDriverValue(row.loanDate),
         mapFromDriverValue(row.dueDate), NULL, id, NULL, tz)

\* Faulty variant of Loan.fromDatabaseRow: the row's loanDate and dueDate
\* are not passed on, so the constructor sets them anew from the clock.
Loan_fromDatabaseRow_NoDates(id, row, book, member) ==
    Loan(book, member, NULL, NULL, mapFromDriverValue(row.returnDate), id,
         now, tz)

\* Loan.fromDatabaseRow(row, book, member), as the driver reads the row
Loan_fromDatabaseRow(id, row, book, member) ==
    Loan(book, member, mapFromDriverValue(row.loanDate),
         mapFromDriverValue(row.dueDate),
         mapFromDriverValue(row.returnDate), id, NULL, tz)

\* AuthorRepository.findById: the entity, or NoAuthor for null
AuthorRepository_findById(id) ==
    IF id \in DOMAIN authors THEN Author_fromDatabaseRow(id, authors[id])
    ELSE NoAuthor

\* Faulty variant of MemberRepository.findById: an absent row is not
\* answered with null.
MemberRepository_findById_NeverNull(id) ==
    IF id \in DOMAIN members THEN Member_fromDatabaseRow(id, members[id])
    ELSE Member("", "", "", id)

\* MemberRepository.findById: the entity, or NoMember for null
MemberRepository_findById(id) ==
    IF id \in DOMAIN members THEN Member_fromDatabaseRow(id, members[id])
    ELSE NoMember

\* BookRepository.findById: null (NoBook), an error when the author row is
\* absent, or the book with its author.
BookRepository_findById(id) ==
    IF id \notin DOMAIN books THEN Ok(NoBook)
    ELSE LET author == AuthorRepository_findById(books[id].authorId)
         IN  IF author = NoAuthor
             THEN Throw("Author with ID % not found", NoBook)
             ELSE Ok(Book_fromDatabaseRow(id, books[id], author))

\* LoanRepository.rowToLoan over the tables bs (books) and the members:
\* null (NoLoan) when the book or the member is absent.
LoanRepository_rowToLoan(id, row) ==
    LET book == BookRepository_findById(row.bookId)
        member == MemberRepository_findById(row.memberId)
    IN  IF book.error # "" THEN Throw(book.error, NoLoan)
        ELSE IF book.value = NoBook \/ member = NoMember THEN Ok(NoLoan)
        ELSE Ok(Loan_fromDatabaseRow(id, row, book.value, member))

\* LoanRepository.findById
LoanRepository_findById(id) ==
    IF id \notin DOMAIN loans THEN Ok(NoLoan)
    ELSE LET loan == LoanRepository_rowToLoan(id, loans[id])
         IN  IF loan.error # "" THEN loan
             ELSE IF loan.value = NoLoan
             THEN Throw("Book or Member not found for loan", NoLoan)
             ELSE loan

\* Faulty variant of NextId: the first id is assigned again.
NextId_First(table) == 1

\* The id an insert into the table assigns (autoincrement; no row is ever
\* deleted by the operations modelled).
NextId(table) == Cardinality(DOMAIN table) + 1

\* The table with one more row.
Insert(table, row) ==
    [i \in DOMAIN table \cup {NextId(table)} |->
        IF i \in DOMAIN table THEN table[i] ELSE row]

\* AuthorRepository.findByEmail: the entity, or NoAuthor for null
AuthorRepository_findByEmail(email) ==
    LET found == {id \in DOMAIN authors : authors[id].email = email}
    IN  IF found = {} THEN NoAuthor
        ELSE LET id == CHOOSE i \in found : \A j \in found : i <= j
             IN  Author_fromDatabaseRow(id, authors[id])

\* AuthorRepository.create: the authors table after the insert and the
\* Author of the created row.  The store refuses an email it already holds
\* (unique index authors_email_unique).
AuthorRepository_create(a) ==
    LET row == Author_toDatabaseRow(a)
    IN  IF \E id \in DOMAIN authors : authors[id].email = row.email
        THEN [error |-> "UNIQUE constraint failed: authors.email",
              table |-> authors, value |-> NoAuthor]
        ELSE [error |-> "", table |-> Insert(authors, row),
              value |-> Author_fromDatabaseRow(NextId(authors), row)]

\* Faulty variant of MemberRepository.findByEmail: no row is ever found.
MemberRepository_findByEmail_NeverFound(email) == NoMember

\* MemberRepository.findByEmail: the entity, or NoMember for null
MemberRepository_findByEmail(email) ==
    LET found == {id \in DOMAIN members : members[id].email = email}
    IN  IF found = {} THEN NoMember
        ELSE LET id == CHOOSE i \in found : \A j \in found : i <= j
             IN  Member_fromDatabaseRow(id, members[id])

\* MemberRepository.create: the members table after the insert and the
\* Member of the created row.  The store refuses an email it already holds
\* (unique index members_email_unique).
MemberRepository_create(m) ==
    LET row == Member_toDatabaseRow(m)
    IN  IF \E id \in DOMAIN members : members[id].email = row.email
        THEN [error |-> "UNIQUE constraint failed: members.email",
              table |-> members, value |-> NoMember]
        ELSE [error |-> "", table |-> Insert(members, row),
              value |-> Member_fromDatabaseRow(NextId(members), row)]

\* BookRepository.create: the books table after the insert and the Book of
\* the created row.  toDatabaseRow() wants an author with an id; the store
\* refuses an ISBN it already holds (unique index books_isbn_unique).
BookRepository_create(b) ==
    IF b.author.id = NULL
    THEN [error |-> "Author must be saved to database before creating book",
          table |-> books, value |-> NoBook]
    ELSE LET row == Book_toDatabaseRow(b)
             author == AuthorRepository_findById(row.authorId)
         IN  IF \E id \in DOMAIN books : books[id].isbn = row.isbn
             THEN [error |-> "UNIQUE constraint failed: books.isbn",
                   table |-> books, value |-> NoBook]
             ELSE IF author = NoAuthor
             THEN [error |-> "Author with ID % not found",
                   table |-> Insert(books, row), value |-> NoBook]
             ELSE [error |-> "", table |-> Insert(books, row),
                   value |-> Book_fromDatabaseRow(NextId(books), row, author)]

\* The errors that come from the store itself, raised by a write it refuses.
StoreErrors ==
    {"UNIQUE constraint failed: authors.email",
     "UNIQUE constraint failed: members.email",
     "UNIQUE constraint failed: books.isbn"}

\* Faulty variant of BookRepository.update: the row is not written.
BookRepository_update_NoWrite(b) ==
    IF b.id = NULL THEN Throw("Cannot update book without ID", books)
    ELSE IF b.id \notin DOMAIN books THEN Throw("Book not found", books)
    ELSE Ok(books)

\* Faulty variant of BookRepository.update: a book with an unreturned loan
\* is not written as available.
BookRepository_update_KeepsLentOut(b) ==
    IF b.id = NULL THEN Throw("Cannot update book without ID", books)
    ELSE IF b.id \notin DOMAIN books THEN Throw("Book not found", books)
    ELSE LET lent == \E l \in DOMAIN loans :
                        loans[l].bookId = b.id /\ loans[l].returnDate = NULL
             row == [Book_toDatabaseRow(b) EXCEPT
                        !.available = IF lent THEN FALSE ELSE @]
             written == [books EXCEPT ![b.id] = row]
         IN  IF AuthorRepository_findById(row.authorId) = NoAuthor
             THEN Throw("Author with ID % not found", written)
             ELSE Ok(written)

\* BookRepository.update: the books table after the write, and the error
\* raised if any (the author is read after the row is written).
BookRepository_update(b) ==
    IF b.id = NULL THEN Throw("Cannot update book without ID", books)
    ELSE IF b.id \notin DOMAIN books THEN Throw("Book not found", books)
    ELSE LET row == Book_toDatabaseRow(b)
             written == [books EXCEPT ![b.id] = row]
         IN  IF AuthorRepository_findById(row.authorId) = NoAuthor
             THEN Throw("Author with ID % not found", written)
             ELSE Ok(written)

\* LoanRepository.create: the loans table after the insert and the Loan
\* hydrated from the created row.
LoanRepository_create(l) ==
    LET row == Loan_toDatabaseRow(l)
        id == NextId(loans)
        written == Insert(loans, row)
        createdLoan == LoanRepository_rowToLoan(id, row)
    IN  IF createdLoan.error # ""
        THEN [error |-> createdLoan.error, table |-> written, value |-> NoLoan]
        ELSE IF createdLoan.value = NoLoan
        THEN [error |-> "Failed to create loan", table |-> written,
              value |-> NoLoan]
        ELSE [error |-> "", table |-> written, value |-> createdLoan.value]

\* LoanRepository.update: the loans table after the write and the Loan
\* hydrated from the updated row.
LoanRepository_update(l) ==
    IF l.id = NULL
    THEN [error |-> "Cannot update loan without ID", table |-> loans,
          value |-> NoLoan]
    ELSE IF l.id \notin DOMAIN loans
    THEN [error |-> "Loan not found", table |-> loans, value |-> NoLoan]
    ELSE LET row == Loan_toDatabaseRow(l)
             written == [loans EXCEPT ![l.id] = row]
             updatedLoan == LoanRepository_rowToLoan(l.id, row)
         IN  IF updatedLoan.error # ""
             THEN [error |-> updatedLoan.error, table |-> written,
                   value |-> NoLoan]
             ELSE IF updatedLoan.value = NoLoan
             THEN [error |-> "Failed to update loan", table |-> written,
                   value |-> NoLoan]
             ELSE [error |-> "", table |-> written,
                   value |-> updatedLoan.value]

(***************************************************************************)
(* Service calls                                                           *)
(***************************************************************************)
IdleFrame ==
    [pc |-> "idle", bookId |-> NULL, memberId |-> NULL, loanId |-> NULL,
     book |-> NoBook, loan |-> NoLoan]

InFlight == {s \in Slots : calls[s].pc # "idle"}

AllIdle == InFlight = {}

\* A call starts in the lowest free slot while fewer than k calls run.
CanStart(s, k) ==
    /\ calls[s].pc = "idle"
    /\ Cardinality(InFlight) < k
    /\ \A r \in Slots : r < s => calls[r].pc # "idle"

\* Loans that exist or that the borrowBook calls in flight may still insert.
LoansInSight ==
    Cardinality(DOMAIN loans)
        + Cardinality({s \in Slots : calls[s].pc \in
                         {"borrow_findMember", "borrow_updateBook",
                          "borrow_createLoan"}})

\* The call in slot s returns result or throws error (about the id errorId).
Complete(s, op, error, errorId, result) ==
    /\ calls' = [calls EXCEPT ![s] = IdleFrame]
    /\ last' = [op |-> op, error |-> error, errorId |-> errorId,
                result |-> result]


\* LoanService.borrowBook, first round trip: bookRepository.findById and
\* the checks that the book exists and is available.
LoanService_borrowBook_findBook(s, bookId, memberId, k) ==
    /\ CanStart(s, k)
    /\ LoansInSight < MaxLoans
    /\ LET book == BookRepository_findById(bookId)
       IN  IF book.error # ""
           THEN Complete(s, "borrowBook", book.error, books[bookId].authorId,
                         NoLoan)
           ELSE IF book.value = NoBook
           THEN Complete(s, "borrowBook", "Book with ID % not found", bookId,
                         NoLoan)
           ELSE IF ~book.value.available
           THEN Complete(s, "borrowBook",
                         "Book is not available for borrowing", NULL, NoLoan)
           ELSE /\ calls' = [calls EXCEPT ![s] =
                       [IdleFrame EXCEPT !.pc = "borrow_findMember",
                                         !.bookId = bookId,
                                         !.memberId = memberId,
                                         !.book = book.value]]
                /\ UNCHANGED last
    /\ UNCHANGED <<store, now, tz, ent, eres>>

\* LoanService.borrowBook, second round trip: memberRepository.findById,
\* then new Loan(book, member) and book.borrow().  The Loan and the service
\* hold the same Book object.
LoanService_borrowBook_findMember(s) ==
    /\ calls[s].pc = "borrow_findMember"
    /\ LET f == calls[s]
           member == MemberRepository_findById(f.memberId)
           loan == Loan(f.book, member, NULL, NULL, NULL, NULL, now, tz)
           borrowed == Book_borrow(f.book)
       IN  IF member = NoMember
           THEN Complete(s, "borrowBook", "Member with ID % not found",
                         f.memberId, NoLoan)
           ELSE IF borrowed.error # ""
           THEN Complete(s, "borrowBook", borrowed.error, NULL, NoLoan)
           ELSE /\ calls' = [calls EXCEPT ![s] =
                       [f EXCEPT !.pc = "borrow_updateBook",
                                 !.book = borrowed.value,
                                 !.loan = [loan EXCEPT
                                              !.book = borrowed.value]]]
                /\ UNCHANGED last
    /\ UNCHANGED <<store, now, tz, ent, eres>>

\* LoanService.borrowBook, third round trip: bookRepository.update(book).
LoanService_borrowBook_updateBook(s) ==
    /\ calls[s].pc = "borrow_updateBook"
    /\ LET f == calls[s]
           updated == BookRepository_update(f.book)
       IN  /\ books' = updated.value
           /\ IF updated.error # ""
              THEN Complete(s, "borrowBook", updated.error, NULL, NoLoan)
              ELSE /\ calls' = [calls EXCEPT ![s].pc = "borrow_createLoan"]
                   /\ UNCHANGED last
    /\ UNCHANGED <<authors, members, loans, now, tz, ent, eres>>

\* LoanService.borrowBook, last round trip: loanRepository.create(loan).
LoanService_borrowBook_createLoan(s) ==
    /\ calls[s].pc = "borrow_createLoan"
    /\ LET created == LoanRepository_create(calls[s].loan)
       IN  /\ loans' = created.table
           /\ Complete(s, "borrowBook", created.error, NULL, created.value)
    /\ UNCHANGED <<authors, books, members, now, tz, ent, eres>>

\* LoanService.returnBook, first round trip: loanRepository.findById, the
\* checks that the loan exists and is active, then loan.returnBook().
LoanService_returnBook_findLoan(s, loanId, k) ==
    /\ CanStart(s, k)
    /\ LET loan == LoanRepository_findById(loanId)
           returned == Loan_returnBook(loan.value, now)
       IN  IF loan.error # ""
           THEN Complete(s, "returnBook", loan.error, NULL, NoLoan)
           ELSE IF loan.value = NoLoan
           THEN Complete(s, "returnBook", "Loan with ID % not found", loanId,
                         NoLoan)
           ELSE IF loan.value.returnDate # NULL
           THEN Complete(s, "returnBook", "Book has already been returned",
                         NULL, NoLoan)
           ELSE IF returned.error # ""
           THEN Complete(s, "returnBook", returned.error, NULL, NoLoan)
           ELSE /\ calls' = [calls EXCEPT ![s] =
                       [IdleFrame EXCEPT !.pc = "return_updateBook",
                                         !.loanId = loanId,
                                         !.book = returned.value.book,
                                         !.loan = returned.value]]
                /\ UNCHANGED last
    /\ UNCHANGED <<store, now, tz, ent, eres>>

\* LoanService.returnBook, second round trip:
\* bookRepository.update(loan.book).
LoanService_returnBook_updateBook(s) ==
    /\ calls[s].pc = "return_updateBook"
    /\ LET updated == BookRepository_update(calls[s].loan.book)
       IN  /\ books' = updated.value
           /\ IF updated.error # ""
              THEN Complete(s, "returnBook", updated.error, NULL, NoLoan)
              ELSE /\ calls' = [calls EXCEPT ![s].pc = "return_updateLoan"]
                   /\ UNCHANGED last
    /\ UNCHANGED <<authors, members, loans, now, tz, ent, eres>>

\* LoanService.returnBook, last round trip: loanRepository.update(loan).
LoanService_returnBook_updateLoan(s) ==
    /\ calls[s].pc = "return_updateLoan"
    /\ LET updated == LoanRepository_update(calls[s].loan)
       IN  /\ loans' = updated.table
           /\ Complete(s, "returnBook", updated.error, NULL, updated.value)
    /\ UNCHANGED <<authors, books, members, now, tz, ent, eres>>

\* The LibraryService calls.  Each is taken whole, its look-up and its
\* insert in one step, and runs while no other call does.

\* A LibraryService call returns or throws error (about the id errorId).
Answer(op, error, errorId) ==
    last' = [op |-> op, error |-> error, errorId |-> errorId,
             result |-> NoLoan]

\* LibraryService.registerAuthor(firstName, lastName, email)
LibraryService_registerAuthor(firstName, lastName, email) ==
    /\ AllIdle
    /\ LET existingAuthor == AuthorRepository_findByEmail(email)
           author == Author(firstName, lastName, email, NULL)
           created == AuthorRepository_create(author)
       IN  IF existingAuthor # NoAuthor
           THEN /\ Answer("registerAuthor",
                          "Author with email % already exists", NULL)
                /\ UNCHANGED authors
           ELSE /\ authors' = created.table
                /\ Answer("registerAuthor", created.error, NULL)
    /\ UNCHANGED <<books, members, loans, now, tz, calls, ent, eres>>

\* LibraryService.addBook(title, isbn, authorId): the author is looked up;
\* the uniqueness of the ISBN is left to the store.
LibraryService_addBook(title, isbn, authorId) ==
    /\ AllIdle
    /\ LET author == AuthorRepository_findById(authorId)
           book == Book(title, isbn, author, NULL, TRUE)
           created == BookRepository_create(book)
       IN  IF author = NoAuthor
           THEN /\ Answer("addBook", "Author with ID % not found", authorId)
                /\ UNCHANGED books
           ELSE /\ books' = created.table
                /\ Answer("addBook", created.error, NULL)
    /\ UNCHANGED <<authors, members, loans, now, tz, calls, ent, eres>>

\* LibraryService.registerMember(firstName, lastName, email)
LibraryService_registerMember(firstName, lastName, email) ==
    /\ AllIdle
    /\ LET existingMember == MemberRepository_findByEmail(email)
           member == Member(firstName, lastName, email, NULL)
           created == MemberRepository_create(member)
       IN  IF existingMember # NoMember
           THEN /\ Answer("registerMember",
                          "Member with email % already exists", NULL)
                /\ UNCHANGED members
           ELSE /\ members' = created.table
                /\ Answer("registerMember", created.error, NULL)
    /\ UNCHANGED <<authors, books, loans, now, tz, calls, ent, eres>>

\* Clock values at which the service is observed: instants with and
\* without a fraction of a second.
Instants == {1500, 4000}

\* Time passes.
Tick ==
    /\ \E t \in Instants : t > now /\ now' = t
    /\ UNCHANGED <<store, tz, calls, last, ent, eres>>

NoResult == [op |-> "none", error |-> "", errorId |-> NULL, result |-> NoLoan]

NoEntityResult ==
    [op |-> "none", error |-> "", value |-> 0, status |-> "", arg |-> NULL,
     before |-> NoLoan]

Init ==
    /\ authors = << >>
    /\ books = << >>
    /\ members = << >>
    /\ loans = << >>
    /\ now \in Instants
    /\ tz \in ServiceTimeZones
    /\ calls = [s \in Slots |-> IdleFrame]
    /\ last = NoResult
    /\ ent = NoLoan
    /\ eres = NoEntityResult

\* Service calls run one at a time.
Next ==
    \/ \E e \in AuthorEmails :
          LibraryService_registerAuthor("J.K.", "Rowling", e)
    \/ \E i \in Isbns, a \in AuthorIds : LibraryService_addBook("1984", i, a)
    \/ \E e \in MemberEmails :
          LibraryService_registerMember("John", "Doe", e)
    \/ \E s \in Slots, b \in BookIds, m \in MemberIds :
          LoanService_borrowBook_findBook(s, b, m, 1)
    \/ \E s \in Slots : LoanService_borrowBook_findMember(s)
    \/ \E s \in Slots : LoanService_borrowBook_updateBook(s)
    \/ \E s \in Slots : LoanService_borrowBook_createLoan(s)
    \/ \E s \in Slots, l \in LoanIds :
          LoanService_returnBook_findLoan(s, l, 1)
    \/ \E s \in Slots : LoanService_returnBook_updateBook(s)
    \/ \E s \in Slots : LoanService_returnBook_updateLoan(s)
    \/ Tick

Spec == Init /\ [][Next]_vars

\* Overlapping service calls: as many LoanService calls as there are slots
\* are in flight at a time, interleaved at their storage round trips.  The
\* interleavings do not depend on the time zone; one is taken.
ConcInit ==
    /\ authors = << >>
    /\ books = << >>
    /\ members = << >>
    /\ loans = << >>
    /\ now \in Instants
    /\ tz \in {z \in TimeZones : z.before = z.after}
    /\ calls = [s \in Slots |-> IdleFrame]
    /\ last = NoResult
    /\ ent = NoLoan
    /\ eres = NoEntityResult

\* One book is enough for two calls to meet.
ConcIsbns == {"978-0747532699"}

ConcNext ==
    \/ \E e \in AuthorEmails :
          LibraryService_registerAuthor("J.K.", "Rowling", e)
    \/ \E i \in ConcIsbns, a \in AuthorIds :
          LibraryService_addBook("1984", i, a)
    \/ \E e \in MemberEmails :
          LibraryService_registerMember("John", "Doe", e)
    \/ \E s \in Slots, b \in BookIds, m \in MemberIds :
          LoanService_borrowBook_findBook(s, b, m, Cardinality(Slots))
    \/ \E s \in Slots : LoanService_borrowBook_findMember(s)
    \/ \E s \in Slots : LoanService_borrowBook_updateBook(s)
    \/ \E s \in Slots : LoanService_borrowBook_createLoan(s)
    \/ \E s \in Slots, l \in LoanIds :
          LoanService_returnBook_findLoan(s, l, Cardinality(Slots))
    \/ \E s \in Slots : LoanService_returnBook_updateBook(s)
    \/ \E s \in Slots : LoanService_returnBook_updateLoan(s)
    \/ Tick

ConcSpec == ConcInit /\ [][ConcNext]_vars


(***************************************************************************)
(* The LibraryService on its own: registrations with arbitrary arguments.  *)
(***************************************************************************)
\* The characters of the strings passed to the registrations.
Characters(str) ==
    CASE str = "" -> <<>>
      [] str = " " -> <<" ">>
      [] str = "John" -> <<"J", "o", "h", "n">>
      [] str = "Doe" -> <<"D", "o", "e">>
      [] str = "J.K." -> <<"J", ".", "K", ".">>
      [] str = "Rowling" -> <<"R", "o", "w", "l", "i", "n", "g">>
      [] str = "1984" -> <<"1", "9", "8", "4">>
      [] str = "a@b.com" -> <<"a", "@", "b", ".", "c", "o", "m">>
      [] str = "john.doe" -> <<"j", "o", "h", "n", ".", "d", "o", "e">>
      [] str = "jk.rowling@example.com" ->
           <<"j", "k", ".", "r", "o", "w", "l", "i", "n", "g", "@",
             "e", "x", "a", "m", "p", "l", "e", ".", "c", "o", "m">>
      [] str = "978-0747532699" ->
           <<"9", "7", "8", "-", "0", "7", "4",
             "7", "5", "3", "2", "6", "9", "9">>
      [] str = "978-0451524935" ->
           <<"9", "7", "8", "-", "0", "4", "5",
             "1", "5", "2", "4", "9", "3", "5">>
      [] str = "12345" -> <<"1", "2", "3", "4", "5">>
      [] str = "\t" -> <<"\t">>
      [] str = " John " -> <<" ", "J", "o", "h", "n", " ">>
      [] str = " 12345678 " ->
           <<" ", "1", "2", "3", "4", "5", "6", "7", "8", " ">>
      [] str = " 978-0451524935" ->
           <<" ", "9", "7", "8", "-", "0", "4", "5",
             "1", "5", "2", "4", "9", "3", "5">>

\* The white space that trim() removes, as far as the strings above have it.
WhiteSpace == {" ", "\t"}

\* String.prototype.trim() on a sequence of characters
RECURSIVE trim(_)
trim(cs) ==
    IF cs = << >> THEN cs
    ELSE IF Head(cs) \in WhiteSpace THEN trim(Tail(cs))
    ELSE IF cs[Len(cs)] \in WhiteSpace
    THEN trim(SubSeq(cs, 1, Len(cs) - 1))
    ELSE cs

\* String.prototype.includes(c) for a single character c
includes(cs, c) == \E k \in 1 .. Len(cs) : cs[k] = c

\* What the setters of Author, Member and Book accept: a name or a title
\* that is not blank, an email with an '@', an ISBN of 10 characters or
\* more.
AcceptsName(value) == Len(trim(Characters(value))) # 0
AcceptsEmail(value) == includes(Characters(value), "@")

\* Faulty variant of AcceptsIsbn: the length is taken before trimming.
AcceptsIsbn_Untrimmed(value) == ~(Len(Characters(value)) < 10)

\* Book's isbn setter accepts a value of 10 characters or more, trimmed.
AcceptsIsbn(value) == ~(Len(trim(Characters(value))) < 10)

\* Arguments of registerAuthor / registerMember (firstName, lastName,
\* email) and of addBook (title, isbn).
PersonArgs ==
    { <<"John", "Doe", "a@b.com">>,
      <<"", " ", "a@b.com">>,
      <<"John", "Doe", "john.doe">> }
BookArgs ==
    { <<"1984", "978-0747532699">>,
      <<" ", "978-0747532699">>,
      <<"1984", "12345">> }

RegistryInit ==
    /\ authors = << >>
    /\ books = << >>
    /\ members = << >>
    /\ loans = << >>
    /\ now \in Instants
    /\ tz \in {z \in TimeZones : z.before = z.after}
    /\ calls = [s \in Slots |-> IdleFrame]
    /\ last = NoResult
    /\ ent = NoLoan
    /\ eres = NoEntityResult

RegistryNext ==
    \/ \E p \in PersonArgs : LibraryService_registerAuthor(p[1], p[2], p[3])
    \/ \E b \in BookArgs, a \in 1 .. Cardinality(PersonArgs) :
          LibraryService_addBook(b[1], b[2], a)
    \/ \E p \in PersonArgs : LibraryService_registerMember(p[1], p[2], p[3])

RegistrySpec == RegistryInit /\ [][RegistryNext]_vars


(***************************************************************************)
(* The Loan entity on its own: a Loan object and its Book in memory, the   *)
(* operations of src/src/models/Loan.ts applied to it while time passes.   *)
(***************************************************************************)
\* Clock values at which the entity is observed: around the loan date, the
\* due date and five days past it, to the millisecond.
EntityInstants ==
    {d * MS_PER_DAY + h * MS_PER_HOUR + e :
        d \in {0, LOAN_DURATION_DAYS, LOAN_DURATION_DAYS + 5},
        h \in {0, 1, 2}, e \in {0, 1}}

\* Dates passed to the constructor (NULL: argument omitted).
LoanDateArgs == {NULL, MS_PER_HOUR}
DueDateArgs == {NULL, LOAN_DURATION_DAYS * MS_PER_DAY}
ReturnDateArgs == {NULL, MS_PER_HOUR + 1}
DailyFineArgs == {NULL, 50, 120}

\* new Loan(book, member, loanDate, dueDate, returnDate) on a Book that is
\* available or not.  (The model's clock ends with EntityInstants, so a
\* Loan is constructed on the first day.)
Entity_new(loanDate, dueDate, returnDate, available) ==
    /\ now < MS_PER_DAY
    /\ ent' = Loan(Book("1984", "978-0747532699",
                        Author("J.K.", "Rowling", "jk.rowling@example.com", 1),
                        1, available),
                   Member("John", "Doe", "a@b.com", 1),
                   loanDate, dueDate, returnDate, NULL, now, tz)
    /\ eres' = [NoEntityResult EXCEPT !.op = "new", !.arg = dueDate]
    /\ UNCHANGED <<store, now, tz, calls, last>>

\* loan.returnBook()
Entity_returnBook ==
    /\ ent # NoLoan
    /\ LET r == Loan_returnBook(ent, now)
       IN  /\ ent' = r.value
           /\ eres' = [NoEntityResult EXCEPT !.op = "returnBook",
                                             !.error = r.error,
                                             !.before = ent]
    /\ UNCHANGED <<store, now, tz, calls, last>>

\* loan.book.borrow()
Entity_borrow ==
    /\ ent # NoLoan
    /\ LET r == Book_borrow(ent.book)
       IN  /\ ent' = [ent EXCEPT !.book = r.value]
           /\ eres' = [NoEntityResult EXCEPT !.op = "borrow",
                                             !.error = r.error,
                                             !.before = ent]
    /\ UNCHANGED <<store, now, tz, calls, last>>

\* loan.isOverdue()
Entity_isOverdue ==
    /\ ent # NoLoan
    /\ eres' = [NoEntityResult EXCEPT
                   !.op = "isOverdue",
                   !.value = IF Loan_isOverdue(ent, now) THEN 1 ELSE 0]
    /\ UNCHANGED <<store, now, tz, calls, last, ent>>

\* loan.calculateFine(dailyFine)
Entity_calculateFine(dailyFine) ==
    /\ ent # NoLoan
    /\ eres' = [NoEntityResult EXCEPT
                   !.op = "calculateFine", !.arg = dailyFine,
                   !.value = Loan_calculateFine(ent, dailyFine, now)]
    /\ UNCHANGED <<store, now, tz, calls, last, ent>>

\* loan.getStatus()
Entity_getStatus ==
    /\ ent # NoLoan
    /\ LET r == Loan_getStatus(ent, now)
       IN  eres' = [NoEntityResult EXCEPT !.op = "getStatus",
                                          !.status = r.status,
                                          !.value = r.fine]
    /\ UNCHANGED <<store, now, tz, calls, last, ent>>

\* loan.book.return()
Entity_return ==
    /\ ent # NoLoan
    /\ ent' = [ent EXCEPT !.book = Book_return(ent.book)]
    /\ eres' = [NoEntityResult EXCEPT !.op = "return", !.before = ent]
    /\ UNCHANGED <<store, now, tz, calls, last>>

\* loan.book.available = value
Entity_setAvailable(value) ==
    /\ ent # NoLoan
    /\ ent' = [ent EXCEPT !.book = Book_setAvailable(ent.book, value)]
    /\ eres' = [NoEntityResult EXCEPT !.op = "setAvailable", !.before = ent]
    /\ UNCHANGED <<store, now, tz, calls, last>>

\* Time passes; the result of the last operation is no longer looked at.
EntityTick ==
    /\ \E t \in EntityInstants : t > now /\ now' = t
    /\ eres' = NoEntityResult
    /\ UNCHANGED <<store, tz, calls, last, ent>>

EntityInit ==
    /\ authors = << >>
    /\ books = << >>
    /\ members = << >>
    /\ loans = << >>
    /\ now \in EntityInstants
    /\ tz \in TimeZones
    /\ calls = [s \in Slots |-> IdleFrame]
    /\ last = NoResult
    /\ ent = NoLoan
    /\ eres = NoEntityResult

EntityNext ==
    \/ \E ld \in LoanDateArgs, dd \in DueDateArgs, rd \in ReturnDateArgs,
          a \in BOOLEAN : Entity_new(ld, dd, rd, a)
    \/ Entity_returnBook
    \/ Entity_borrow
    \/ Entity_isOverdue
    \/ \E r \in DailyFineArgs : Entity_calculateFine(r)
    \/ Entity_getStatus
    \/ Entity_return
    \/ \E v \in BOOLEAN : Entity_setAvailable(v)
    \/ EntityTick

EntitySpec == EntityInit /\ [][EntityNext]_vars

\* ---------------------------------------------------------------------
\* Repository reads that return several entities, and the LoanService
\* reads built on them.
\* ---------------------------------------------------------------------

\* The ids of S in the order a select without ORDER BY returns the rows
\* of an autoincrement table: ascending.
RECURSIVE Ascending(_)
Ascending(S) ==
    IF S = {} THEN << >>
    ELSE LET first == CHOOSE i \in S : \A j \in S : i <= j
         IN  <<first>> \o Ascending(S \ {first})

\* Faulty variant of BookRepository.hydrateBooksWithAuthors: the author is
\* looked up once for every row.
BookRepository_hydrateBooksWithAuthors_PerRow(ids) ==
    LET found == SelectSeq(ids, LAMBDA i :
                     AuthorRepository_findById(books[i].authorId) # NoAuthor)
    IN  [list |-> [k \in 1 .. Len(found) |->
                     Book_fromDatabaseRow(found[k], books[found[k]],
                         AuthorRepository_findById(books[found[k]].authorId))],
         lookups |-> Len(ids)]

\* Faulty variant of BookRepository.hydrateBooksWithAuthors: a row whose
\* author is missing is kept, with an empty author.
BookRepository_hydrateBooksWithAuthors_KeepsAll(ids) ==
    [list |-> [k \in 1 .. Len(ids) |->
                 Book_fromDatabaseRow(ids[k], books[ids[k]],
                     AuthorRepository_findById(books[ids[k]].authorId))],
     lookups |-> Cardinality({books[ids[k]].authorId : k \in 1 .. Len(ids)})]

\* BookRepository.hydrateBooksWithAuthors, on the rows with the given ids:
\* the books built, and the number of authorRepository.findById calls made
\* (one for each member of the set of author ids).
BookRepository_hydrateBooksWithAuthors(ids) ==
    LET authorIds == {books[ids[k]].authorId : k \in 1 .. Len(ids)}
        authorsMap == [a \in {x \in authorIds :
                                AuthorRepository_findById(x) # NoAuthor}
                         |-> AuthorRepository_findById(a)]
        found == SelectSeq(ids, LAMBDA i :
                     books[i].authorId \in DOMAIN authorsMap)
    IN  [list |-> [k \in 1 .. Len(found) |->
                     Book_fromDatabaseRow(found[k], books[found[k]],
                         authorsMap[books[found[k]].authorId])],
         lookups |-> Cardinality(authorIds)]

\* BookRepository.findAll
BookRepository_findAll ==
    BookRepository_hydrateBooksWithAuthors(Ascending(DOMAIN books))

\* BookRepository.findAvailable
BookRepository_findAvailable ==
    BookRepository_hydrateBooksWithAuthors(
        Ascending({id \in DOMAIN books : books[id].available}))

\* LoanRepository.rowsToLoans, on the rows with the given ids: Promise.all
\* over rowToLoan, then the rows that came back null are filtered out.  A
\* rowToLoan that throws rejects the whole read; the error reported is that
\* of the first row, in order, that throws.
LoanRepository_rowsToLoans(ids) ==
    LET thrown == SelectSeq(ids, LAMBDA i :
                      LoanRepository_rowToLoan(i, loans[i]).error # "")
        found == SelectSeq(ids, LAMBDA i :
                     LoanRepository_rowToLoan(i, loans[i]).value # NoLoan)
    IN  IF thrown # << >>
        THEN [error |-> LoanRepository_rowToLoan(thrown[1],
                                                 loans[thrown[1]]).error,
              errorId |-> books[loans[thrown[1]].bookId].authorId,
              list |-> << >>]
        ELSE [error |-> "", errorId |-> NULL,
              list |-> [k \in 1 .. Len(found) |->
                          LoanRepository_rowToLoan(found[k],
                                                   loans[found[k]]).value]]

\* LoanRepository.findAll
LoanRepository_findAll == LoanRepository_rowsToLoans(Ascending(DOMAIN loans))

\* LoanRepository.findActive: the rows whose returnDate is null.
LoanRepository_findActive ==
    LoanRepository_rowsToLoans(
        Ascending({id \in DOMAIN loans : loans[id].returnDate = NULL}))

\* LoanRepository.findByMemberId
LoanRepository_findByMemberId(memberId) ==
    IF MemberRepository_findById(memberId) = NoMember
    THEN [error |-> "Member with ID % not found", errorId |-> memberId,
          list |-> << >>]
    ELSE LoanRepository_rowsToLoans(
             Ascending({id \in DOMAIN loans : loans[id].memberId = memberId}))

\* LoanService.getOverdueLoans, called at time t: the active loans whose
\* isOverdue() is true.
LoanService_getOverdueLoans(t) ==
    LET active == LoanRepository_findActive
    IN  [active EXCEPT
           !.list = SelectSeq(active.list, LAMBDA l : Loan_isOverdue(l, t))]

RECURSIVE SumFines(_, _, _)
\* The reduce of LoanService.calculateTotalFines: the fines of the loans of
\* the list, added up from 0.
SumFines(list, dailyFine, t) ==
    IF list = << >> THEN 0
    ELSE SumFines(SubSeq(list, 1, Len(list) - 1), dailyFine, t)
           + Loan_calculateFine(list[Len(list)], dailyFine, t)

\* LoanService.calculateTotalFines(dailyFine), called at time t.
LoanService_calculateTotalFines(dailyFine, t) ==
    LET overdue == LoanService_getOverdueLoans(t)
    IN  [error |-> overdue.error, errorId |-> overdue.errorId,
         total |-> SumFines(overdue.list, dailyFine, t)]

\* ---------------------------------------------------------------------
\* The repositories called directly, as src/index.ts does, and the
\* LoanService reads.  Each call is taken whole and leaves its outcome in
\* `last`: the entity or id passed in (arg), the error thrown, the entity
\* returned (result) or the entities returned (list), and a number (count:
\* the author look-ups of a bulk book read, the total of the fines).
\*
\* The schema declares books.authorId, loans.bookId and loans.memberId as
\* foreign keys; SQLite enforces them on a connection only if that
\* connection has foreign_keys switched on.  fk says whether the store
\* enforces them for the call.
\* ---------------------------------------------------------------------
Reply(op, arg, error, errorId, result, list, count) ==
    last' = [op |-> op, arg |-> arg, error |-> error, errorId |-> errorId,
             result |-> result, list |-> list, count |-> count]

\* The clock values of the repository calls: the due instant of the
\* earliest loan, the millisecond after it, and an instant two days later.
RepoInstants ==
    {MS_PER_DAY, MS_PER_DAY + 1, 3 * MS_PER_DAY + MS_PER_HOUR}

\* The loanDate and the dueDates passed to new Loan(...).
RepoLoanDate == MS_PER_SECOND + 500
RepoDueDates == {MS_PER_DAY, 2 * MS_PER_DAY + 500}

\* An Author held by the caller with the given id: the one the repository
\* returns, or an instance constructed with an id that no row has.
AuthorRef(id) ==
    IF id \in DOMAIN authors THEN AuthorRepository_findById(id)
    ELSE Author("J.K.", "Rowling", "jk.rowling@example.com", id)

\* A Book held by the caller with the given id.
BookRef(id) ==
    IF id \in DOMAIN books
    THEN Book_fromDatabaseRow(id, books[id], AuthorRef(books[id].authorId))
    ELSE Book("1984", "978-0747532699", AuthorRef(1), id, TRUE)

\* A Member held by the caller with the given id.
MemberRef(id) ==
    IF id \in DOMAIN members THEN MemberRepository_findById(id)
    ELSE Member("John", "Doe", "a@b.com", id)

\* A Loan held by the caller with the given id.
LoanRef(id) ==
    IF id \in DOMAIN loans
    THEN Loan_fromDatabaseRow(id, loans[id], BookRef(loans[id].bookId),
                              MemberRef(loans[id].memberId))
    ELSE Loan(BookRef(1), MemberRef(1), RepoLoanDate, MS_PER_DAY, NULL, id,
              now, tz)

\* authorRepository.create(new Author(firstName, lastName, email))
Call_AuthorRepository_create(firstName, lastName, email) ==
    LET a == Author(firstName, lastName, email, NULL)
        created == AuthorRepository_create(a)
    IN  /\ authors' = created.table
        /\ Reply("AuthorRepository.create", a, created.error, NULL,
                 created.value, << >>, 0)
        /\ UNCHANGED <<books, members, loans, now, tz, calls, ent, eres>>

\* memberRepository.create(new Member(firstName, lastName, email))
Call_MemberRepository_create(firstName, lastName, email) ==
    LET m == Member(firstName, lastName, email, NULL)
        created == MemberRepository_create(m)
    IN  /\ members' = created.table
        /\ Reply("MemberRepository.create", m, created.error, NULL,
                 created.value, << >>, 0)
        /\ UNCHANGED <<authors, books, loans, now, tz, calls, ent, eres>>

\* bookRepository.create(new Book(title, isbn, author)), the author being an
\* Author with id authorId.  A store that enforces the foreign key refuses
\* the row of an author it does not hold.
Call_BookRepository_create(title, isbn, authorId, fk) ==
    LET b == Book(title, isbn, AuthorRef(authorId), NULL, TRUE)
        created == BookRepository_create(b)
        refused == /\ fk
                   /\ authorId \notin DOMAIN authors
                   /\ created.error \notin StoreErrors
    IN  /\ books' = IF refused THEN books ELSE created.table
        /\ Reply("BookRepository.create", b,
                 IF refused THEN "FOREIGN KEY constraint failed"
                 ELSE created.error,
                 IF ~refused /\ created.error = "Author with ID % not found"
                 THEN authorId ELSE NULL,
                 IF refused THEN NoBook ELSE created.value, << >>, 0)
        /\ UNCHANGED <<authors, members, loans, now, tz, calls, ent, eres>>

\* bookRepository.update(book), the book being the Book with the given id,
\* its availability set.
Call_BookRepository_update(id, available) ==
    LET b == Book_setAvailable(BookRef(id), available)
        updated == BookRepository_update(b)
    IN  /\ books' = updated.value
        /\ Reply("BookRepository.update", b, updated.error,
                 IF updated.error = "Author with ID % not found"
                 THEN b.author.id ELSE NULL,
                 IF updated.error = "" THEN b ELSE NoBook, << >>, 0)
        /\ UNCHANGED <<authors, members, loans, now, tz, calls, ent, eres>>

\* loanRepository.create(new Loan(book, member, loanDate, dueDate)), as
\* src/index.ts does for its overdue loan.
Call_LoanRepository_create(bookId, memberId, dueDate, fk) ==
    LET l == Loan(BookRef(bookId), MemberRef(memberId), RepoLoanDate,
                  dueDate, NULL, NULL, now, tz)
        created == LoanRepository_create(l)
        refused == /\ fk
                   /\ \/ bookId \notin DOMAIN books
                      \/ memberId \notin DOMAIN members
    IN  /\ Cardinality(DOMAIN loans) < MaxLoans
        /\ loans' = IF refused THEN loans ELSE created.table
        /\ Reply("LoanRepository.create", l,
                 IF refused THEN "FOREIGN KEY constraint failed"
                 ELSE created.error,
                 IF ~refused /\ created.error = "Author with ID % not found"
                 THEN l.book.author.id ELSE NULL,
                 IF refused THEN NoLoan ELSE created.value, << >>, 0)
        /\ UNCHANGED <<authors, books, members, now, tz, calls, ent, eres>>

\* loanRepository.update(loan), the loan being the Loan with the given id,
\* its returnDate set to the clock's value as Loan.returnBook() sets it.
Call_LoanRepository_update(id) ==
    LET l == [LoanRef(id) EXCEPT !.returnDate = now]
        updated == LoanRepository_update(l)
    IN  /\ loans' = updated.table
        /\ Reply("LoanRepository.update", l, updated.error,
                 IF updated.error = "Author with ID % not found"
                 THEN l.book.author.id ELSE NULL,
                 updated.value, << >>, 0)
        /\ UNCHANGED <<authors, books, members, now, tz, calls, ent, eres>>

\* bookRepository.findById(id)
Call_BookRepository_findById(id) ==
    LET found == BookRepository_findById(id)
    IN  /\ Reply("BookRepository.findById", id, found.error,
                 IF found.error = "" THEN NULL ELSE books[id].authorId,
                 found.value, << >>, 0)
        /\ UNCHANGED <<store, now, tz, calls, ent, eres>>

\* bookRepository.findAll()
Call_BookRepository_findAll ==
    LET found == BookRepository_findAll
    IN  /\ Reply("BookRepository.findAll", NULL, "", NULL, NoBook,
                 found.list, found.lookups)
        /\ UNCHANGED <<store, now, tz, calls, ent, eres>>

\* bookRepository.findAvailable()
Call_BookRepository_findAvailable ==
    LET found == BookRepository_findAvailable
    IN  /\ Reply("BookRepository.findAvailable", NULL, "", NULL, NoBook,
                 found.list, found.lookups)
        /\ UNCHANGED <<store, now, tz, calls, ent, eres>>

\* loanRepository.findById(id)
Call_LoanRepository_findById(id) ==
    LET found == LoanRepository_findById(id)
    IN  /\ Reply("LoanRepository.findById", id, found.error,
                 IF found.error = "Author with ID % not found"
                 THEN books[loans[id].bookId].authorId ELSE NULL,
                 found.value, << >>, 0)
        /\ UNCHANGED <<store, now, tz, calls, ent, eres>>

\* loanRepository.findAll()
Call_LoanRepository_findAll ==
    LET found == LoanRepository_findAll
    IN  /\ Reply("LoanRepository.findAll", NULL, found.error, found.errorId,
                 NoLoan, found.list, 0)
        /\ UNCHANGED <<store, now, tz, calls, ent, eres>>

\* loanRepository.findActive()
Call_LoanRepository_findActive ==
    LET found == LoanRepository_findActive
    IN  /\ Reply("LoanRepository.findActive", NULL, found.error,
                 found.errorId, NoLoan, found.list, 0)
        /\ UNCHANGED <<store, now, tz, calls, ent, eres>>

\* loanRepository.findByMemberId(memberId)
Call_LoanRepository_findByMemberId(memberId) ==
    LET found == LoanRepository_findByMemberId(memberId)
    IN  /\ Reply("LoanRepository.findByMemberId", memberId, found.error,
                 found.errorId, NoLoan, found.list, 0)
        /\ UNCHANGED <<store, now, tz, calls, ent, eres>>

\* loanService.getOverdueLoans()
Call_LoanService_getOverdueLoans ==
    LET found == LoanService_getOverdueLoans(now)
    IN  /\ Reply("LoanService.getOverdueLoans", NULL, found.error,
                 found.errorId, NoLoan, found.list, 0)
        /\ UNCHANGED <<store, now, tz, calls, ent, eres>>

\* loanService.calculateTotalFines(dailyFine); NULL: argument omitted.
Call_LoanService_calculateTotalFines(dailyFine) ==
    LET found == LoanService_calculateTotalFines(dailyFine, now)
    IN  /\ Reply("LoanService.calculateTotalFines", dailyFine, found.error,
                 found.errorId, NoLoan, << >>, found.total)
        /\ UNCHANGED <<store, now, tz, calls, ent, eres>>

\* Time passes.
RepoTick ==
    /\ \E t \in RepoInstants : t > now /\ now' = t
    /\ UNCHANGED <<store, tz, calls, last, ent, eres>>

RepoInit ==
    /\ authors = << >>
    /\ books = << >>
    /\ members = << >>
    /\ loans = << >>
    /\ now \in RepoInstants
    /\ tz \in {z \in TimeZones : z.before = z.after}
    /\ calls = [s \in Slots |-> IdleFrame]
    /\ last = NoResult
    /\ ent = NoLoan
    /\ eres = NoEntityResult

\* Loans made and returned through the repositories, on a store that
\* enforces the foreign keys its schema declares, and the LoanService
\* reads of the loans that are overdue.
RepoNext ==
    \/ \E e \in AuthorEmails :
          Call_AuthorRepository_create("J.K.", "Rowling", e)
    \/ \E e \in MemberEmails : Call_MemberRepository_create("John", "Doe", e)
    \/ \E i \in ConcIsbns, a \in AuthorIds :
          Call_BookRepository_create("1984", i, a, TRUE)
    \/ \E b \in 1 .. Cardinality(ConcIsbns) + 1, m \in MemberIds,
          d \in RepoDueDates : Call_LoanRepository_create(b, m, d, TRUE)
    \/ \E id \in LoanIds : Call_LoanRepository_update(id)
    \/ Call_LoanRepository_findActive
    \/ Call_LoanService_getOverdueLoans
    \/ \E f \in {NULL, 120} : Call_LoanService_calculateTotalFines(f)
    \/ RepoTick

RepoSpec == RepoInit /\ [][RepoNext]_vars

\* The clock stands still.
StillInit == RepoInit /\ now = MS_PER_DAY

\* Authors and books written and read through their repositories, on a
\* store that does not enforce its foreign keys on every call.
BookAuthorEmails == AuthorEmails \cup MemberEmails
BookNext ==
    \/ \E e \in BookAuthorEmails :
          Call_AuthorRepository_create("J.K.", "Rowling", e)
    \/ \E i \in Isbns, a \in 1 .. Cardinality(BookAuthorEmails) + 1,
          fk \in BOOLEAN : Call_BookRepository_create("1984", i, a, fk)
    \/ \E id \in BookIds, v \in BOOLEAN : Call_BookRepository_update(id, v)
    \/ \E id \in BookIds : Call_BookRepository_findById(id)
    \/ Call_BookRepository_findAll
    \/ Call_BookRepository_findAvailable

BookSpec == StillInit /\ [][BookNext]_vars

\* All four repositories, on a store that does not enforce its foreign
\* keys on every call.  A loan is made of the book with the first id, which
\* has a row or not.
OrphanNext ==
    \/ \E e \in AuthorEmails :
          Call_AuthorRepository_create("J.K.", "Rowling", e)
    \/ \E e \in MemberEmails : Call_MemberRepository_create("John", "Doe", e)
    \/ \E i \in ConcIsbns, a \in AuthorIds, fk \in BOOLEAN :
          Call_BookRepository_create("1984", i, a, fk)
    \/ \E id \in 1 .. Cardinality(ConcIsbns) + 1, v \in BOOLEAN :
          Call_BookRepository_update(id, v)
    \/ \E b \in 1 .. Cardinality(ConcIsbns), m \in MemberIds,
          fk \in BOOLEAN :
          Call_LoanRepository_create(b, m, 2 * MS_PER_DAY + 500, fk)
    \/ \E id \in LoanIds : Call_LoanRepository_update(id)
    \/ \E id \in LoanIds : Call_LoanRepository_findById(id)
    \/ Call_LoanRepository_findAll
    \/ Call_LoanRepository_findActive
    \/ \E m \in MemberIds : Call_LoanRepository_findByMemberId(m)

OrphanSpec == StillInit /\ [][OrphanNext]_vars


(***************************************************************************)
(* Properties of the service calls (specification Spec)                    *)
(***************************************************************************)
\* The loans of book b that are not returned.
ActiveLoans(b) ==
    {l \in DOMAIN loans : loans[l].bookId = b /\ loans[l].returnDate = NULL}

\* C1: with the calls run one at a time from the empty store, once no call
\* is running every book has at most one loan row with returnDate unset.
C1_AtMostOneActiveLoan ==
    AllIdle => \A b \in DOMAIN books : Cardinality(ActiveLoans(b)) <= 1

\* C1 witness: a book lent, returned and lent again: one active loan next
\* to a returned one.
C1_Witness ==
    /\ AllIdle
    /\ \E b \in DOMAIN books :
          /\ Cardinality(ActiveLoans(b)) = 1
          /\ \E l \in DOMAIN loans :
                loans[l].bookId = b /\ loans[l].returnDate # NULL

\* C2: once no call is running, a book row is unavailable exactly when some
\* loan row of the book has returnDate unset.
C2_AvailableIffNoActiveLoan ==
    AllIdle =>
        \A b \in DOMAIN books : (~books[b].available) <=> ActiveLoans(b) # {}

\* C2 witness: one book on loan and unavailable, another, whose loan was
\* returned, available again.
C2_Witness ==
    /\ AllIdle
    /\ \E b \in DOMAIN books : ~books[b].available /\ ActiveLoans(b) # {}
    /\ \E b \in DOMAIN books :
          /\ books[b].available
          /\ \E l \in DOMAIN loans :
                loans[l].bookId = b /\ loans[l].returnDate # NULL

\* C3: borrowBook on an existing book whose row is unavailable ends at its
\* first step with the 'not available for borrowing' error and leaves the
\* book, loan and member rows as they were.
C3_BorrowUnavailableFails ==
    [][\A s \in Slots, b \in BookIds, m \in MemberIds :
          (/\ LoanService_borrowBook_findBook(s, b, m, 1)
           /\ b \in DOMAIN books
           /\ ~books[b].available)
          => /\ calls'[s].pc = "idle"
             /\ last'.op = "borrowBook"
             /\ last'.error = "Book is not available for borrowing"
             /\ books' = books
             /\ ~books'[b].available
             /\ loans' = loans
             /\ members' = members]_vars

\* C3 witness: a borrowBook has just failed with that error on a book that
\* is on loan.
C3_Witness ==
    /\ AllIdle
    /\ last.op = "borrowBook"
    /\ last.error = "Book is not available for borrowing"
    /\ \E b \in DOMAIN books : ~books[b].available /\ ActiveLoans(b) # {}


\* The effects of a successful borrowBook that do not involve dates, step
\* by step: the call goes on when book and member exist and the book is
\* available, reads the clock for loanDate, marks the book row unavailable,
\* and inserts exactly one loan row, for that book and member and not
\* returned; the Loan returned has the new id and an unavailable book.
BorrowEffects(s) ==
    /\ \A b \in BookIds, m \in MemberIds :
          (/\ LoanService_borrowBook_findBook(s, b, m, 1)
           /\ b \in DOMAIN books /\ books[b].available)
          => calls'[s].pc = "borrow_findMember"
    /\ (LoanService_borrowBook_findMember(s)
           /\ calls[s].memberId \in DOMAIN members)
          => /\ calls'[s].pc = "borrow_updateBook"
             /\ calls'[s].loan.loanDate = now
    /\ LoanService_borrowBook_updateBook(s)
          => /\ calls'[s].pc = "borrow_createLoan"
             /\ ~books'[calls[s].bookId].available
             /\ \A b \in DOMAIN books :
                   b # calls[s].bookId => books'[b] = books[b]
    /\ LoanService_borrowBook_createLoan(s)
          => /\ \E id \in DOMAIN loans' \ DOMAIN loans :
                   /\ DOMAIN loans' = DOMAIN loans \cup {id}
                   /\ loans'[id].bookId = calls[s].bookId
                   /\ loans'[id].memberId = calls[s].memberId
                   /\ loans'[id].returnDate = NULL
                   /\ last'.result.id = id
             /\ \A l \in DOMAIN loans : loans'[l] = loans[l]
             /\ ~books'[calls[s].bookId].available
             /\ last'.op = "borrowBook" /\ last'.error = ""
             /\ ~last'.result.book.available
             /\ calls'[s].pc = "idle"

\* C4 (as claimed): a successful borrowBook has the effects above, and the
\* new loan row holds loanDate = the time the call read and
\* dueDate = loanDate + 14 days of 24 hours.
C4_BorrowAsClaimed ==
    [][\A s \in Slots :
          /\ BorrowEffects(s)
          /\ LoanService_borrowBook_createLoan(s)
                => \E id \in DOMAIN loans' \ DOMAIN loans :
                      /\ mapFromDriverValue(loans'[id].loanDate)
                            = calls[s].loan.loanDate
                      /\ mapFromDriverValue(loans'[id].dueDate)
                            = mapFromDriverValue(loans'[id].loanDate)
                                + LOAN_DURATION_DAYS * MS_PER_DAY]_vars

\* What holds of C4 in every time zone: the effects that do not involve
\* dates, and loanDate stored as the whole seconds of the time read.
C4_BorrowEffectsHold ==
    [][\A s \in Slots :
          /\ BorrowEffects(s)
          /\ LoanService_borrowBook_createLoan(s)
                => \E id \in DOMAIN loans' \ DOMAIN loans :
                      loans'[id].loanDate
                          = calls[s].loan.loanDate \div MS_PER_SECOND]_vars

\* The effects of a successful returnBook that do not involve the value of
\* returnDate: the call goes on when the loan exists and is not returned,
\* makes the book row available, sets returnDate on that loan row alone and
\* returns the Loan of the same id, whose status is Returned.
ReturnEffects(s) ==
    /\ \A l \in LoanIds :
          (/\ LoanService_returnBook_findLoan(s, l, 1)
           /\ l \in DOMAIN loans /\ loans[l].returnDate = NULL)
          => /\ calls'[s].pc = "return_updateBook"
             /\ calls'[s].loan.id = l
             /\ calls'[s].loan.returnDate = now
    /\ LoanService_returnBook_updateBook(s)
          => /\ calls'[s].pc = "return_updateLoan"
             /\ books'[loans[calls[s].loanId].bookId].available
             /\ \A b \in DOMAIN books :
                   b # loans[calls[s].loanId].bookId => books'[b] = books[b]
    /\ LoanService_returnBook_updateLoan(s)
          => LET id == calls[s].loanId
             IN  /\ DOMAIN loans' = DOMAIN loans
                 /\ loans'[id].returnDate # NULL
                 /\ loans'[id] = [loans[id] EXCEPT
                                    !.returnDate = loans'[id].returnDate]
                 /\ \A l \in DOMAIN loans : l # id => loans'[l] = loans[l]
                 /\ books'[loans[id].bookId].available
                 /\ last'.op = "returnBook" /\ last'.error = ""
                 /\ last'.result.id = id
                 /\ Loan_getStatus(last'.result, now).status = "Returned"
                 /\ calls'[s].pc = "idle"

\* C5 (as claimed): a successful returnBook has the effects above and the
\* loan row's returnDate is the time the call read.
C5_ReturnAsClaimed ==
    [][\A s \in Slots :
          /\ ReturnEffects(s)
          /\ LoanService_returnBook_updateLoan(s)
                => mapFromDriverValue(loans'[calls[s].loanId].returnDate)
                      = calls[s].loan.returnDate]_vars

\* C5 (amended): a successful returnBook has the effects above and the
\* loan row's returnDate is the time the call read cut to whole seconds.
C5_ReturnEffectsHold ==
    [][\A s \in Slots :
          /\ ReturnEffects(s)
          /\ LoanService_returnBook_updateLoan(s)
                => loans'[calls[s].loanId].returnDate
                      = calls[s].loan.returnDate \div MS_PER_SECOND]_vars

\* C5 witness: a returnBook has just succeeded at a time with a fraction of
\* a second; the row holds the whole seconds and the book is available.
C5_Witness ==
    /\ AllIdle
    /\ last.op = "returnBook" /\ last.error = ""
    /\ now % MS_PER_SECOND # 0
    /\ loans[last.result.id].returnDate = now \div MS_PER_SECOND
    /\ books[loans[last.result.id].bookId].available

\* C6: returnBook on an id that no loan row has fails with the
\* loan-not-found error, and on a loan row that has a returnDate with the
\* 'already been returned' error; in both cases the call ends there and no
\* book row and no loan row changes.
C6_ReturnFails ==
    [][\A s \in Slots, l \in LoanIds :
          /\ (LoanService_returnBook_findLoan(s, l, 1)
                 /\ l \notin DOMAIN loans)
                => /\ last'.op = "returnBook"
                   /\ last'.error = "Loan with ID % not found"
                   /\ last'.errorId = l
                   /\ calls'[s].pc = "idle"
                   /\ books' = books /\ loans' = loans
          /\ (LoanService_returnBook_findLoan(s, l, 1)
                 /\ l \in DOMAIN loans /\ loans[l].returnDate # NULL)
                => /\ last'.op = "returnBook"
                   /\ last'.error = "Book has already been returned"
                   /\ calls'[s].pc = "idle"
                   /\ books' = books /\ loans' = loans]_vars

\* C6 witness: a returnBook has just failed with 'already been returned'
\* while a returned loan row exists.
C6_Witness ==
    /\ AllIdle
    /\ last.op = "returnBook"
    /\ last.error = "Book has already been returned"
    /\ \E l \in DOMAIN loans : loans[l].returnDate # NULL

\* C14 (as claimed): borrowBook(bookId, memberId) fails with the
\* book-not-found error when no book row has bookId and, the book row
\* existing, with the member-not-found error when no member row has
\* memberId; no book row changes and no loan row is inserted.
C14_NotFoundAsClaimed ==
    [][\A s \in Slots :
          /\ \A b \in BookIds, m \in MemberIds :
                LoanService_borrowBook_findBook(s, b, m, 1)
                => /\ b \notin DOMAIN books
                         => /\ calls'[s].pc = "idle"
                            /\ last'.error = "Book with ID % not found"
                            /\ books' = books /\ loans' = loans
                   /\ (b \in DOMAIN books /\ m \notin DOMAIN members
                          /\ calls'[s].pc = "idle")
                         => /\ last'.error = "Member with ID % not found"
                            /\ books' = books /\ loans' = loans
          /\ (LoanService_borrowBook_findMember(s)
                 /\ calls[s].memberId \notin DOMAIN members)
                => /\ calls'[s].pc = "idle"
                   /\ last'.error = "Member with ID % not found"
                   /\ books' = books /\ loans' = loans]_vars

\* C14 (amended): borrowBook(bookId, memberId) fails with the
\* book-not-found error (naming bookId) when no book row has bookId; with
\* the unavailable error when the book row exists and is unavailable,
\* whether the member exists or not; and with the member-not-found error
\* (naming memberId) when the book row exists and is available and no
\* member row has memberId.  The three errors differ, and in each case no
\* book row changes and no loan row is inserted.
C14_NotFoundErrors ==
    [][\A s \in Slots :
          /\ \A b \in BookIds, m \in MemberIds :
                LoanService_borrowBook_findBook(s, b, m, 1)
                => /\ b \notin DOMAIN books
                         => /\ calls'[s].pc = "idle"
                            /\ last'.op = "borrowBook"
                            /\ last'.error = "Book with ID % not found"
                            /\ last'.errorId = b
                            /\ books' = books /\ loans' = loans
                   /\ (b \in DOMAIN books /\ ~books[b].available)
                         => /\ calls'[s].pc = "idle"
                            /\ last'.op = "borrowBook"
                            /\ last'.error
                                  = "Book is not available for borrowing"
                            /\ books' = books /\ loans' = loans
                   /\ (b \in DOMAIN books /\ books[b].available)
                         => /\ calls'[s].pc = "borrow_findMember"
                            /\ calls'[s].memberId = m
          /\ (LoanService_borrowBook_findMember(s)
                 /\ calls[s].memberId \notin DOMAIN members)
                => /\ calls'[s].pc = "idle"
                   /\ last'.op = "borrowBook"
                   /\ last'.error = "Member with ID % not found"
                   /\ last'.errorId = calls[s].memberId
                   /\ last'.error
                         \notin {"Book with ID % not found",
                                 "Book is not available for borrowing"}
                   /\ books' = books /\ loans' = loans]_vars

\* C14 witness: borrowBook has just failed with the member-not-found error
\* on a book that is there and still available, and no loan row exists.
C14_Witness ==
    /\ AllIdle
    /\ last.op = "borrowBook"
    /\ last.error = "Member with ID % not found"
    /\ last.errorId \notin DOMAIN members
    /\ \E b \in DOMAIN books : books[b].available
    /\ DOMAIN loans = {}


(***************************************************************************)
(* Properties of overlapping service calls (specification ConcSpec)        *)
(***************************************************************************)
\* C11: in every execution, overlapping calls included, a loan row is never
\* deleted, a returnDate that is set is never cleared, and the row's book,
\* member, loanDate and dueDate never change (no renewal, no cancellation):
\* the only change of a loan row is returnDate going from unset to set.
C11_OnlyActiveToReturned ==
    [][\A l \in DOMAIN loans :
          /\ l \in DOMAIN loans'
          /\ loans[l].returnDate # NULL => loans'[l].returnDate # NULL
          /\ loans'[l].bookId = loans[l].bookId
          /\ loans'[l].memberId = loans[l].memberId
          /\ loans'[l].loanDate = loans[l].loanDate
          /\ loans'[l].dueDate = loans[l].dueDate]_vars

\* C11 witness: a loan row has been returned by one returnBook call while
\* a second returnBook call for the same loan, which loaded the row before
\* that write, has still to write it.
C11_Witness ==
    \E s \in Slots :
        /\ calls[s].pc = "return_updateLoan"
        /\ loans[calls[s].loanId].returnDate # NULL
        /\ last.op = "returnBook" /\ last.error = ""
        /\ last.result.id = calls[s].loanId

\* C12 (as claimed): in every execution, overlapping returnBook calls for
\* the same loan included, a loan row's returnDate keeps its value once
\* it is set.
C12_ReturnDateImmutable ==
    [][\A l \in DOMAIN loans :
          loans[l].returnDate # NULL
              => loans'[l].returnDate = loans[l].returnDate]_vars

\* C13: two overlapping borrowBook calls for the same book both pass the
\* availability check when both read the row before either writes it, and
\* from there neither fails: each finds its member, writes the book row
\* unavailable (whatever the row holds by then) and inserts its own
\* unreturned loan row next to the other's.
C13_BothBorrowsSucceed ==
    [][\A s \in Slots :
          /\ \A b \in BookIds, m \in MemberIds :
                (/\ LoanService_borrowBook_findBook(s, b, m, Cardinality(Slots))
                 /\ b \in DOMAIN books /\ books[b].available)
                => calls'[s].pc = "borrow_findMember"
          /\ (LoanService_borrowBook_findMember(s)
                 /\ calls[s].memberId \in DOMAIN members)
                => calls'[s].pc = "borrow_updateBook"
          /\ LoanService_borrowBook_updateBook(s)
                => /\ calls'[s].pc = "borrow_createLoan"
                   /\ ~books'[calls[s].bookId].available
          /\ LoanService_borrowBook_createLoan(s)
                => /\ last'.op = "borrowBook" /\ last'.error = ""
                   /\ loans'[last'.result.id].returnDate = NULL
                   /\ loans'[last'.result.id].bookId = calls[s].bookId
                   /\ Cardinality({l \in DOMAIN loans' :
                          /\ loans'[l].bookId = calls[s].bookId
                          /\ loans'[l].returnDate = NULL})
                        = Cardinality(ActiveLoans(calls[s].bookId)) + 1]_vars

\* C13 witness: both calls have returned and the store holds two loan rows
\* of one book with returnDate unset.
C13_Witness ==
    /\ AllIdle
    /\ last.op = "borrowBook" /\ last.error = ""
    /\ \E b \in DOMAIN books : Cardinality(ActiveLoans(b)) = 2


(***************************************************************************)
(* Properties of the Loan entity (specification EntitySpec)                *)
(***************************************************************************)
\* C7: Loan.returnBook() on a loan with returnDate unset sets returnDate to
\* the current time and makes its Book available; on a loan that has a
\* returnDate it fails with 'already been returned' and leaves returnDate
\* and the Book's availability as they were.
C7_ReturnBookTwice ==
    eres.op = "returnBook" =>
        IF eres.before.returnDate = NULL
        THEN /\ eres.error = ""
             /\ ent.returnDate = now
             /\ ent.book.available
        ELSE /\ eres.error = "Book has already been returned"
             /\ ent.returnDate = eres.before.returnDate
             /\ ent.book.available = eres.before.book.available

\* C7 witness: the second returnBook() has just failed: the loan was given
\* no returnDate at construction, holds the one the first returnBook() set
\* at an earlier time, and its Book has been borrowed again since.
C7_Witness ==
    /\ eres.op = "returnBook"
    /\ eres.error = "Book has already been returned"
    /\ ent.returnDate \notin ReturnDateArgs
    /\ ent.returnDate < now
    /\ ~ent.book.available

\* C8: Loan.isOverdue() is true exactly when returnDate is unset and the
\* current time is strictly after dueDate.
C8_IsOverdue ==
    eres.op = "isOverdue" =>
        /\ (eres.value = 1) <=> (ent.returnDate = NULL /\ now > ent.dueDate)
        /\ ent.returnDate # NULL => eres.value = 0
        /\ now = ent.dueDate => eres.value = 0

\* C8 witness: isOverdue() has just answered false for an unreturned loan
\* at the very instant it is due.
C8_Witness ==
    /\ eres.op = "isOverdue"
    /\ ent.returnDate = NULL
    /\ now = ent.dueDate
    /\ eres.value = 0

\* The daily fine a calculateFine call applies.
RateOf(arg) == IF arg = NULL THEN DEFAULT_DAILY_FINE ELSE arg

\* C9: Loan.calculateFine(rate) is 0 for a loan that is returned or not yet
\* past dueDate; otherwise it is n * rate for the whole number n of days
\* with (n - 1) days < now - dueDate <= n days: exactly 5 days past due at
\* rate 0.5 gives 2.50, one millisecond more gives 6 * rate.
C9_CalculateFine ==
    eres.op = "calculateFine" =>
        LET diff == now - ent.dueDate
            rate == RateOf(eres.arg)
        IN  /\ (ent.returnDate # NULL \/ diff <= 0) => eres.value = 0
            /\ (ent.returnDate = NULL /\ diff > 0) =>
                  \E n \in 1 .. LOAN_DURATION_DAYS + 6 :
                      /\ (n - 1) * MS_PER_DAY < diff
                      /\ diff <= n * MS_PER_DAY
                      /\ eres.value = n * rate
            /\ (ent.returnDate = NULL /\ diff = 5 * MS_PER_DAY /\ rate = 50)
                  => eres.value = 250
            /\ (ent.returnDate = NULL /\ diff = 5 * MS_PER_DAY + 1)
                  => eres.value = 6 * rate

\* C9 witness: calculateFine() at the default rate on an unreturned loan
\* exactly 5 days past due has just given 2.50.
C9_Witness ==
    /\ eres.op = "calculateFine"
    /\ eres.arg = NULL
    /\ ent.returnDate = NULL
    /\ now - ent.dueDate = 5 * MS_PER_DAY
    /\ eres.value = 250

\* C10 (as claimed): a Loan constructed without a due date has
\* dueDate = loanDate + 14 days of 24 hours; one constructed with a due
\* date keeps it.
C10_DefaultDueDate ==
    eres.op = "new" =>
        IF eres.arg = NULL
        THEN ent.dueDate = ent.loanDate + LOAN_DURATION_DAYS * MS_PER_DAY
        ELSE ent.dueDate = eres.arg

\* C15: Loan.getStatus() answers Returned exactly when returnDate is set,
\* Overdue exactly when returnDate is unset and the current time is after
\* dueDate, and Active otherwise; the fine shown with Overdue is the number
\* of days past due, a begun day counting whole, times the default daily
\* rate 0.5.
C15_GetStatus ==
    eres.op = "getStatus" =>
        LET diff == now - ent.dueDate
        IN  /\ eres.status \in {"Returned", "Overdue", "Active"}
            /\ eres.status = "Returned" <=> ent.returnDate # NULL
            /\ eres.status = "Overdue"
                  <=> (ent.returnDate = NULL /\ now > ent.dueDate)
            /\ eres.status = "Active"
                  <=> (ent.returnDate = NULL /\ now <= ent.dueDate)
            /\ eres.status = "Overdue" =>
                  \E n \in 1 .. LOAN_DURATION_DAYS + 6 :
                      /\ (n - 1) * MS_PER_DAY < diff
                      /\ diff <= n * MS_PER_DAY
                      /\ eres.value = n * DEFAULT_DAILY_FINE

\* C15 witness: getStatus() has just answered Overdue with a fine of 3.00
\* for an unreturned loan five days and one millisecond past due.
C15_Witness ==
    /\ eres.op = "getStatus"
    /\ eres.status = "Overdue"
    /\ ent.returnDate = NULL
    /\ now - ent.dueDate = 5 * MS_PER_DAY + 1
    /\ eres.value = 300

\* C16: Book.borrow() on an unavailable book fails with 'not available for
\* borrowing' and leaves it unavailable, on an available book it succeeds
\* and makes it unavailable; Book.return() never fails and leaves the book
\* available, and a second return() changes nothing.
C16_BorrowAndReturn ==
    [][/\ Entity_borrow
            => /\ ~ent'.book.available
               /\ eres'.error = IF ent.book.available THEN ""
                                ELSE "Book is not available for borrowing"
               /\ ent' = [ent EXCEPT !.book.available = FALSE]
       /\ Entity_return
            => /\ ent'.book.available
               /\ eres'.error = ""
               /\ ent' = [ent EXCEPT !.book.available = TRUE]
               /\ eres.op = "return" => ent' = ent
               /\ Book_return(ent'.book) = ent'.book]_vars

\* C16 witness: return() has just been called on a book that was already
\* available (a second return), and the book is as it was.
C16_Witness ==
    /\ eres.op = "return"
    /\ eres.before.book.available
    /\ ent.book.available
    /\ ent = eres.before
    /\ ent.returnDate = NULL

\* C17 (as claimed): the availability of an existing Book changes only in
\* Book.borrow(), Book.return() and Loan.returnBook().
C17_OnlyBorrowAndReturn ==
    [][(/\ ent # NoLoan
        /\ eres'.op # "new"
        /\ ent'.book.available # ent.book.available)
       => eres'.op \in {"borrow", "return", "returnBook"}]_vars


(***************************************************************************)
(* Properties of the registrations (specification RegistrySpec)            *)
(***************************************************************************)
\* C18 (as claimed): whatever the arguments of registerAuthor,
\* registerMember and addBook, every author and member row has a first and
\* a last name that are not empty and an email with an '@', and every book
\* row a title that is not empty and an ISBN of at least 10 characters.
C18_NoInvalidRow ==
    /\ \A a \in DOMAIN authors :
          /\ AcceptsName(authors[a].firstName)
          /\ AcceptsName(authors[a].lastName)
          /\ AcceptsEmail(authors[a].email)
    /\ \A m \in DOMAIN members :
          /\ AcceptsName(members[m].firstName)
          /\ AcceptsName(members[m].lastName)
          /\ AcceptsEmail(members[m].email)
    /\ \A b \in DOMAIN books :
          /\ AcceptsName(books[b].title)
          /\ AcceptsIsbn(books[b].isbn)

\* C19: registerMember with an email that a member row has, and
\* registerAuthor with an email that an author row has, fail with the
\* 'already exists' error and add no row; no two member rows and no two
\* author rows share an email.
C19_DuplicateEmail ==
    [][/\ \A p \in PersonArgs :
            /\ (/\ LibraryService_registerMember(p[1], p[2], p[3])
                 /\ \E m \in DOMAIN members : members[m].email = p[3])
                => /\ last'.op = "registerMember"
                   /\ last'.error = "Member with email % already exists"
                   /\ members' = members
            /\ (/\ LibraryService_registerAuthor(p[1], p[2], p[3])
                 /\ \E a \in DOMAIN authors : authors[a].email = p[3])
                => /\ last'.op = "registerAuthor"
                   /\ last'.error = "Author with email % already exists"
                   /\ authors' = authors
       /\ \A m, n \in DOMAIN members' :
             members'[m].email = members'[n].email => m = n
       /\ \A a, b \in DOMAIN authors' :
             authors'[a].email = authors'[b].email => a = b]_vars

\* C19 witness: a registerMember has just failed with 'already exists'
\* while a member row with another email was registered as well.
C19_Witness ==
    /\ last.op = "registerMember"
    /\ last.error = "Member with email % already exists"
    /\ Cardinality(DOMAIN members) = 2

\* C20 (as claimed): addBook for an existing author with an ISBN that a
\* book row already has fails, the failure is not one the store raises on
\* a write, and the books table is unchanged.
C20_DuplicateIsbnBeforeWrite ==
    [][\A b \in BookArgs, a \in DOMAIN authors :
          (/\ LibraryService_addBook(b[1], b[2], a)
           /\ \E k \in DOMAIN books : books[k].isbn = b[2])
          => /\ last'.op = "addBook"
             /\ last'.error # ""
             /\ last'.error \notin StoreErrors
             /\ books' = books]_vars

\* The ids of the book rows a bulk read selects: all of them, or the
\* available ones.
RowsSelected(op) ==
    IF op = "BookRepository.findAvailable"
    THEN {id \in DOMAIN books : books[id].available}
    ELSE DOMAIN books

\* The book rows whose author row is absent.
OrphanBooks == {id \in DOMAIN books : books[id].authorId \notin DOMAIN authors}

\* C21: BookRepository.findAll and findAvailable do not raise, and return
\* the selected rows whose author row is present, all of them and no
\* other, each with its row's fields; BookRepository.findById of a row
\* whose author row is absent raises the author-not-found error, and
\* returns no book.
C21_OrphanBooks ==
    /\ last.op \in {"BookRepository.findAll", "BookRepository.findAvailable"}
       => /\ last.error = ""
          /\ [k \in 1 .. Len(last.list) |-> last.list[k].id]
               = Ascending(RowsSelected(last.op) \ OrphanBooks)
          /\ \A k \in 1 .. Len(last.list) :
                LET b == last.list[k]
                IN  /\ b.title = books[b.id].title
                    /\ b.isbn = books[b.id].isbn
                    /\ b.available = books[b.id].available
    /\ (last.op = "BookRepository.findById" /\ last.arg \in OrphanBooks)
       => /\ last.error = "Author with ID % not found"
          /\ last.errorId = books[last.arg].authorId
          /\ last.result = NoBook

\* C21 witness: findAvailable has answered while an available row has no
\* author row, and it returned another row.
C21_Witness ==
    /\ last.op = "BookRepository.findAvailable"
    /\ RowsSelected(last.op) \cap OrphanBooks # {}
    /\ last.list # << >>

\* C23: a bulk book read makes one author look-up for each distinct
\* authorId among the rows it selected, and every book it returns carries
\* the author of the row whose id is its row's authorId.
C23_OneLookupPerAuthor ==
    last.op \in {"BookRepository.findAll", "BookRepository.findAvailable"}
    => /\ last.count
            = Cardinality({books[id].authorId : id \in RowsSelected(last.op)})
       /\ \A k \in 1 .. Len(last.list) :
             LET b == last.list[k]
             IN  /\ b.author.id = books[b.id].authorId
                 /\ b.author.email = authors[b.author.id].email
                 /\ b.author.firstName = authors[b.author.id].firstName
                 /\ b.author.lastName = authors[b.author.id].lastName

\* C23 witness: findAll has returned two books of one author, after one
\* look-up.
C23_Witness ==
    /\ last.op = "BookRepository.findAll"
    /\ Len(last.list) = Cardinality(Isbns)
    /\ last.count = 1

\* The ids of the loan rows a bulk read selects.
LoanRowsSelected(op, arg) ==
    IF op = "LoanRepository.findActive"
    THEN {id \in DOMAIN loans : loans[id].returnDate = NULL}
    ELSE IF op = "LoanRepository.findByMemberId"
    THEN {id \in DOMAIN loans : loans[id].memberId = arg}
    ELSE DOMAIN loans

\* The loan rows whose book row or member row is absent.
OrphanLoans ==
    {id \in DOMAIN loans :
        loans[id].bookId \notin DOMAIN books
          \/ loans[id].memberId \notin DOMAIN members}

\* The loan rows whose book row is present and is without its author row.
AuthorlessLoans ==
    {id \in DOMAIN loans :
        loans[id].bookId \in DOMAIN books
          /\ loans[id].bookId \in OrphanBooks}

\* C22: LoanRepository.findAll, findActive and findByMemberId (of a member
\* that exists) do not raise, and return the selected rows but for those
\* whose book, member or book's author is absent.
C22_BulkReadsNeverRaise ==
    (/\ last.op \in {"LoanRepository.findAll", "LoanRepository.findActive",
                     "LoanRepository.findByMemberId"}
     /\ last.op = "LoanRepository.findByMemberId" => last.arg \in DOMAIN members)
    => /\ last.error = ""
       /\ [k \in 1 .. Len(last.list) |-> last.list[k].id]
            = Ascending(LoanRowsSelected(last.op, last.arg)
                          \ (OrphanLoans \cup AuthorlessLoans))

\* C24: a Loan that LoanRepository.findById returns has its row's id, the
\* Book of row.bookId with that book row's fields and the Author of its
\* authorId, the Member of row.memberId, and the row's three dates; null
\* is returned for an id that no loan row has, and for no other.
C24_FullGraph ==
    last.op = "LoanRepository.findById"
    => /\ (last.error = "" /\ last.result = NoLoan)
             <=> last.arg \notin DOMAIN loans
       /\ last.result # NoLoan
          => LET l == last.result
                 row == loans[last.arg]
             IN  /\ l.id = last.arg
                 /\ l.book.id = row.bookId
                 /\ l.member.id = row.memberId
                 /\ l.book.author.id = books[row.bookId].authorId
                 /\ l.book.author
                      = Author_fromDatabaseRow(l.book.author.id,
                                               authors[l.book.author.id])
                 /\ l.book.title = books[row.bookId].title
                 /\ l.book.isbn = books[row.bookId].isbn
                 /\ l.book.available = books[row.bookId].available
                 /\ l.member.email = members[row.memberId].email
                 /\ l.loanDate = row.loanDate * MS_PER_SECOND
                 /\ l.dueDate = row.dueDate * MS_PER_SECOND
                 /\ IF row.returnDate = NULL THEN l.returnDate = NULL
                    ELSE l.returnDate = row.returnDate * MS_PER_SECOND

\* C24 witness: findById has returned a loan that was returned, of a book
\* that is not available.
C24_Witness ==
    /\ last.op = "LoanRepository.findById"
    /\ last.result # NoLoan
    /\ last.result.returnDate # NULL
    /\ ~last.result.book.available

\* The errors that report an entity as missing, and those among them that
\* name one kind of entity and carry the id looked up (the % of the text).
MissingErrors ==
    {"Author with ID % not found", "Book with ID % not found",
     "Member with ID % not found", "Loan with ID % not found",
     "Book or Member not found for loan", "Book not found",
     "Loan not found", "Failed to create loan", "Failed to update loan"}
IdentifyingErrors ==
    {"Author with ID % not found", "Book with ID % not found",
     "Member with ID % not found", "Loan with ID % not found"}

\* C26: an error that reports a missing entity names the kind of the
\* entity and carries the id that was looked up.
C26_ErrorsCarryKindAndId ==
    last.error \in MissingErrors
    => last.error \in IdentifyingErrors /\ last.errorId # NULL

(***************************************************************************)
(* Properties of loan rows over the service calls (specification Spec)     *)
(***************************************************************************)
\* C29: no call changes the dueDate, the loanDate, the bookId or the
\* memberId of a loan row that exists, and the Loan that a returnBook call
\* returns shows the loanDate and dueDate its row had before the call.
C29_LoanFieldsFixed ==
    [][/\ \A l \in DOMAIN loans :
             /\ l \in DOMAIN loans'
             /\ <<loans'[l].dueDate, loans'[l].loanDate, loans'[l].bookId,
                  loans'[l].memberId>>
                  = <<loans[l].dueDate, loans[l].loanDate, loans[l].bookId,
                      loans[l].memberId>>
       /\ (loans' # loans /\ last'.op = "returnBook")
          => LET l == last'.result.id
             IN  /\ l \in DOMAIN loans
                 /\ mapToDriverValue(last'.result.loanDate)
                      = loans[l].loanDate
                 /\ mapToDriverValue(last'.result.dueDate) = loans[l].dueDate
                 /\ last'.result.book.id = loans[l].bookId
                 /\ last'.result.member.id = loans[l].memberId]_vars

\* C29 witness: returnBook has returned a loan, and its row holds the
\* return date while its book row is available again.
C29_Witness ==
    /\ last.op = "returnBook" /\ last.error = ""
    /\ last.result.id \in DOMAIN loans
    /\ loans[last.result.id].returnDate # NULL
    /\ books[loans[last.result.id].bookId].available

(***************************************************************************)
(* Properties of the repositories (specifications OrphanSpec, RepoSpec)    *)
(***************************************************************************)
\* C25: when a repository's create succeeds, findById of the id assigned
\* returns what create returned, and its fields are those of the entity
\* passed in: names and email of an Author or Member; title, ISBN, author
\* and availability of a Book; book, member and, in whole seconds, the
\* dates of a Loan.
C25_RoundTrip ==
    [][/\ (authors' # authors /\ last'.error = "")
          => \E id \in 1 .. NextId(authors) :
             LET found == AuthorRepository_findById(id)'
             IN  /\ id = last'.result.id
                 /\ found = last'.result
                 /\ found # NoAuthor
                 /\ <<found.firstName, found.lastName, found.email>>
                      = <<last'.arg.firstName, last'.arg.lastName,
                          last'.arg.email>>
       /\ (members' # members /\ last'.error = "")
          => \E id \in 1 .. NextId(members) :
             LET found == MemberRepository_findById(id)'
             IN  /\ id = last'.result.id
                 /\ found = last'.result
                 /\ found # NoMember
                 /\ <<found.firstName, found.lastName, found.email>>
                      = <<last'.arg.firstName, last'.arg.lastName,
                          last'.arg.email>>
       /\ (last'.op = "BookRepository.create" /\ books' # books
             /\ last'.error = "")
          => \E id \in 1 .. NextId(books) :
             LET found == BookRepository_findById(id)'
             IN  /\ id = last'.result.id
                 /\ found = Ok(last'.result)
                 /\ found.value # NoBook
                 /\ <<found.value.title, found.value.isbn,
                      found.value.author, found.value.available>>
                      = <<last'.arg.title, last'.arg.isbn, last'.arg.author,
                          last'.arg.available>>
       /\ (last'.op = "LoanRepository.create" /\ loans' # loans
             /\ last'.error = "")
          => \E id \in 1 .. NextId(loans) :
             LET found == LoanRepository_findById(id)'
             IN  /\ id = last'.result.id
                 /\ found = Ok(last'.result)
                 /\ found.value # NoLoan
                 /\ found.value.book.id = last'.arg.book.id
                 /\ found.value.member.id = last'.arg.member.id
                 /\ mapToDriverValue(found.value.loanDate)
                      = mapToDriverValue(last'.arg.loanDate)
                 /\ mapToDriverValue(found.value.dueDate)
                      = mapToDriverValue(last'.arg.dueDate)
                 /\ found.value.returnDate = last'.arg.returnDate]_vars

\* C25 witness: loanRepository.create has returned the Loan of a new row;
\* the Loan passed in had dates that are not whole seconds.
C25_Witness ==
    /\ last.op = "LoanRepository.create" /\ last.error = ""
    /\ last.result.id \in DOMAIN loans
    /\ last.arg.loanDate % MS_PER_SECOND # 0
    /\ last.arg.dueDate % MS_PER_SECOND # 0

\* The table a repository call writes to.
TableOf(op) ==
    CASE op \in {"AuthorRepository.create"} -> authors
      [] op \in {"MemberRepository.create"} -> members
      [] op \in {"BookRepository.create", "BookRepository.update"} -> books
      [] op \in {"LoanRepository.create", "LoanRepository.update"} -> loans
      [] OTHER -> << >>

\* C30: the entity passed to a repository's create has no id, and still has
\* none after the call; the entity that a successful create returns has an
\* id that no row of the table had, and that the new row has; a successful
\* update returns the entity under the id it was passed with; and no call
\* removes a row's id from its table or adds an id but by a create.
C30_Identity ==
    [][/\ \A op \in {"AuthorRepository.create", "MemberRepository.create",
                      "BookRepository.create", "LoanRepository.create"} :
             last'.op = op
             => /\ last'.arg.id = NULL
                /\ last'.error = ""
                   => /\ last'.result.id # NULL
                      /\ last'.result.id \notin DOMAIN TableOf(op)
                      /\ DOMAIN TableOf(op)'
                           = DOMAIN TableOf(op) \cup {last'.result.id}
       /\ \A op \in {"BookRepository.update", "LoanRepository.update"} :
             (last'.op = op /\ last'.error = "")
             => /\ last'.arg.id # NULL
                /\ last'.result.id = last'.arg.id
                /\ DOMAIN TableOf(op)' = DOMAIN TableOf(op)
       /\ DOMAIN authors \subseteq DOMAIN authors'
       /\ DOMAIN members \subseteq DOMAIN members'
       /\ DOMAIN books \subseteq DOMAIN books'
       /\ DOMAIN loans \subseteq DOMAIN loans'
       /\ \A id \in DOMAIN books :
             <<books'[id].isbn, books'[id].title>>
               = <<books[id].isbn, books[id].title>>
       /\ \A id \in DOMAIN loans :
             <<loans'[id].bookId, loans'[id].memberId>>
               = <<loans[id].bookId, loans[id].memberId>>]_vars

\* C30 witness: loanRepository.update has returned the Loan of a row that
\* was created after another one.
C30_Witness ==
    /\ last.op = "LoanRepository.update" /\ last.error = ""
    /\ last.result.id = MaxLoans
    /\ last.result.returnDate # NULL

\* The loan rows that are overdue at time t: no returnDate, and a dueDate
\* before t.
OverdueRows(t) ==
    {id \in DOMAIN loans :
        /\ loans[id].returnDate = NULL
        /\ loans[id].dueDate * MS_PER_SECOND < t}

\* C27: LoanService.getOverdueLoans() returns the loans of the rows that
\* have no returnDate and a dueDate before the time of the call, those and
\* no other; and on a given store, the loans it returns at one time are
\* among those it returns at any later time.
C27_OverdueAtCallTime ==
    [][/\ (last'.op = "LoanService.getOverdueLoans" /\ now' = now)
          => /\ last'.error = ""
             /\ [k \in 1 .. Len(last'.list) |-> last'.list[k].id]
                  = Ascending(OverdueRows(now))
             /\ \A k \in 1 .. Len(last'.list) :
                   /\ last'.list[k].returnDate = NULL
                   /\ last'.list[k].dueDate < now
       /\ \A t1, t2 \in RepoInstants :
             t1 < t2
             => LET earlier == LoanService_getOverdueLoans(t1).list
                    later == LoanService_getOverdueLoans(t2).list
                IN  {earlier[k] : k \in 1 .. Len(earlier)}
                      \subseteq {later[k] : k \in 1 .. Len(later)}]_vars

\* C27 witness: getOverdueLoans has returned one loan while the store
\* holds another active loan, which falls due later, and the clock shows
\* the millisecond after the first one's due instant.
C27_Witness ==
    /\ last.op = "LoanService.getOverdueLoans"
    /\ now = MS_PER_DAY + 1
    /\ Len(last.list) = 1
    /\ \E id \in DOMAIN loans :
          /\ loans[id].returnDate = NULL
          /\ id # last.list[1].id

RECURSIVE FinesOf(_, _, _)
\* The sum, over the loan rows with the given ids, of the days past due
\* at time t, each begun day counting, times the rate.
FinesOf(ids, rate, t) ==
    IF ids = {} THEN 0
    ELSE LET id == CHOOSE i \in ids : TRUE
         IN  Ceil(t - loans[id].dueDate * MS_PER_SECOND, MS_PER_DAY) * rate
               + FinesOf(ids \ {id}, rate, t)

\* C28: LoanService.calculateTotalFines(rate) returns the sum, over the
\* loans overdue at the time of the call, of the begun days past due times
\* the rate, the rate being 0.5 when none is passed; loans that are not
\* overdue, returned ones among them, add nothing.
C28_TotalFines ==
    [][(last'.op = "LoanService.calculateTotalFines" /\ now' = now)
          => /\ last'.error = ""
             /\ last'.count
                  = FinesOf(OverdueRows(now),
                            IF last'.arg = NULL THEN 50 ELSE last'.arg, now)
             /\ OverdueRows(now) = {} => last'.count = 0]_vars

\* C28 witness: calculateTotalFines() has added up the fines of two overdue
\* loans, three and two begun days past due, at the default rate.
C28_Witness ==
    /\ last.op = "LoanService.calculateTotalFines"
    /\ last.arg = NULL
    /\ Cardinality(OverdueRows(now)) = 2
    /\ last.count = (3 + 2) * 50

(***************************************************************************)
(* Writes that the store refuses (specification FaultSpec)                 *)
(***************************************************************************)
\* The error of a write that the store does not carry out (SQLITE_BUSY,
\* SQLITE_FULL, ...): the driver's promise rejects and nothing is written.
StoreFailure == "database is locked"

\* LoanService.borrowBook, third round trip, the store refusing the write:
\* bookRepository.update rejects and the call throws.
LoanService_borrowBook_updateBook_StoreFails(s) ==
    /\ calls[s].pc = "borrow_updateBook"
    /\ Complete(s, "borrowBook", StoreFailure, NULL, NoLoan)
    /\ UNCHANGED <<store, now, tz, ent, eres>>

\* LoanService.borrowBook, last round trip, the store refusing the insert:
\* loanRepository.create rejects and the call throws; nothing undoes the
\* book update of the round trip before.
LoanService_borrowBook_createLoan_StoreFails(s) ==
    /\ calls[s].pc = "borrow_createLoan"
    /\ Complete(s, "borrowBook", StoreFailure, NULL, NoLoan)
    /\ UNCHANGED <<store, now, tz, ent, eres>>

\* LoanService.returnBook, second round trip, the store refusing the write.
LoanService_returnBook_updateBook_StoreFails(s) ==
    /\ calls[s].pc = "return_updateBook"
    /\ Complete(s, "returnBook", StoreFailure, NULL, NoLoan)
    /\ UNCHANGED <<store, now, tz, ent, eres>>

\* LoanService.returnBook, last round trip, the store refusing the write:
\* loanRepository.update rejects and the call throws; nothing undoes the
\* book update of the round trip before.
LoanService_returnBook_updateLoan_StoreFails(s) ==
    /\ calls[s].pc = "return_updateLoan"
    /\ Complete(s, "returnBook", StoreFailure, NULL, NoLoan)
    /\ UNCHANGED <<store, now, tz, ent, eres>>

\* The service calls one at a time, on one book, any write of a LoanService
\* call being carried out or refused by the store.
FaultNext ==
    \/ \E e \in AuthorEmails :
          LibraryService_registerAuthor("J.K.", "Rowling", e)
    \/ \E i \in ConcIsbns, a \in AuthorIds :
          LibraryService_addBook("1984", i, a)
    \/ \E e \in MemberEmails :
          LibraryService_registerMember("John", "Doe", e)
    \/ \E s \in Slots, b \in BookIds, m \in MemberIds :
          LoanService_borrowBook_findBook(s, b, m, 1)
    \/ \E s \in Slots : LoanService_borrowBook_findMember(s)
    \/ \E s \in Slots : LoanService_borrowBook_updateBook(s)
    \/ \E s \in Slots : LoanService_borrowBook_updateBook_StoreFails(s)
    \/ \E s \in Slots : LoanService_borrowBook_createLoan(s)
    \/ \E s \in Slots : LoanService_borrowBook_createLoan_StoreFails(s)
    \/ \E s \in Slots, l \in LoanIds :
          LoanService_returnBook_findLoan(s, l, 1)
    \/ \E s \in Slots : LoanService_returnBook_updateBook(s)
    \/ \E s \in Slots : LoanService_returnBook_updateBook_StoreFails(s)
    \/ \E s \in Slots : LoanService_returnBook_updateLoan(s)
    \/ \E s \in Slots : LoanService_returnBook_updateLoan_StoreFails(s)
    \/ Tick

FaultSpec == ConcInit /\ [][FaultNext]_vars

C32_ReturnLeavesLoanActive ==
    [][/\ \A s \in Slots, l \in LoanIds :
             (LoanService_returnBook_updateLoan_StoreFails(s)
                /\ l = calls[s].loanId)
             => /\ books[loans[l].bookId].available
                /\ last'.op = "returnBook" /\ last'.error # ""
                /\ books'[loans[l].bookId].available
                /\ loans'[l].returnDate = NULL
       /\ \A s \in Slots, b \in DOMAIN books, m \in MemberIds :
             (LoanService_borrowBook_findBook(s, b, m, 1)
                /\ books[b].available)
             => calls'[s].pc = "borrow_findMember"
       /\ \A s \in Slots :
             LoanService_borrowBook_createLoan(s)
             => /\ last'.error = ""
                /\ last'.result.id \notin DOMAIN loans
                /\ loans'[last'.result.id].bookId = calls[s].bookId
                /\ loans'[last'.result.id].returnDate = NULL]_vars

\* C32 witness: after a returnBook call failed at its loan update, a
\* borrowBook call has succeeded, and the book has two active loans.
C32_Witness ==
    /\ AllIdle
    /\ last.op = "borrowBook" /\ last.error = ""
    /\ Cardinality(ActiveLoans(last.result.book.id)) = 2

(***************************************************************************)
(* One book lent to one member after another (specification RelendSpec)   *)
(***************************************************************************)
\* Two members for the one book, so that the second borrower may be the
\* first one or somebody else.
RelendMemberEmails == {"a@b.com", "jk.rowling@example.com"}

\* The service calls run one at a time.
RelendNext ==
    \/ \E e \in AuthorEmails :
          LibraryService_registerAuthor("J.K.", "Rowling", e)
    \/ \E i \in ConcIsbns, a \in 1 .. Cardinality(AuthorEmails) :
          LibraryService_addBook("1984", i, a)
    \/ \E e \in RelendMemberEmails :
          LibraryService_registerMember("John", "Doe", e)
    \/ \E s \in Slots, b \in 1 .. Cardinality(ConcIsbns),
          m \in 1 .. Cardinality(RelendMemberEmails) :
          LoanService_borrowBook_findBook(s, b, m, 1)
    \/ \E s \in Slots : LoanService_borrowBook_findMember(s)
    \/ \E s \in Slots : LoanService_borrowBook_updateBook(s)
    \/ \E s \in Slots : LoanService_borrowBook_createLoan(s)
    \/ \E s \in Slots, l \in LoanIds :
          LoanService_returnBook_findLoan(s, l, 1)
    \/ \E s \in Slots : LoanService_returnBook_updateBook(s)
    \/ \E s \in Slots : LoanService_returnBook_updateLoan(s)
    \/ Tick

RelendSpec == ConcInit /\ [][RelendNext]_vars

\* The loans of book b that are returned.
ReturnedLoans(b) ==
    {l \in DOMAIN loans : loans[l].bookId = b /\ loans[l].returnDate # NULL}

\* C33: with the calls run one at a time, once a loan of book b is
\* returned and no call is in flight the book row is available again; a
\* borrowBook(b, m) started then passes the availability check, goes on to
\* its writes when member m exists, and ends without an error having
\* inserted a loan row of b and m under an id no row had, every older loan
\* row, the returned one and its returnDate included, kept as it was.
C33_ReturnedBookLentAgain ==
    [][/\ \A b \in DOMAIN books' :
             (AllIdle' /\ ReturnedLoans(b)' # {} /\ ActiveLoans(b)' = {})
             => books'[b].available
       /\ \A s \in Slots, b \in DOMAIN books, m \in DOMAIN members :
             (/\ LoanService_borrowBook_findBook(s, b, m, 1)
              /\ ReturnedLoans(b) # {} /\ ActiveLoans(b) = {})
             => /\ calls'[s].pc = "borrow_findMember"
                /\ calls'[s].bookId = b /\ calls'[s].memberId = m
       /\ \A s \in Slots :
             (/\ LoanService_borrowBook_findMember(s)
              /\ calls[s].memberId \in DOMAIN members)
             => calls'[s].pc = "borrow_updateBook"
       /\ \A s \in Slots :
             LoanService_borrowBook_updateBook(s)
             => /\ calls'[s].pc = "borrow_createLoan"
                /\ ~books'[calls[s].bookId].available
       /\ \A s \in Slots :
             LoanService_borrowBook_createLoan(s)
             => /\ last'.op = "borrowBook" /\ last'.error = ""
                /\ last'.result.id \notin DOMAIN loans
                /\ DOMAIN loans' = DOMAIN loans \cup {last'.result.id}
                /\ loans'[last'.result.id].bookId = calls[s].bookId
                /\ loans'[last'.result.id].memberId = calls[s].memberId
                /\ loans'[last'.result.id].returnDate = NULL
                /\ \A l \in DOMAIN loans : loans'[l] = loans[l]]_vars

\* C33 witness: the second loan of a book was made to another member than
\* the first loan, which is returned.
C33_Witness ==
    /\ AllIdle
    /\ last.op = "borrowBook" /\ last.error = ""
    /\ last.result.id = 2
    /\ loans[1].bookId = loans[2].bookId
    /\ loans[1].memberId # loans[2].memberId
    /\ loans[1].returnDate # NULL
    /\ loans[2].returnDate = NULL

(***************************************************************************)
(* The validated setters (specification SetterSpec): a Loan in memory, the *)
(* setters of its Book, of the Book's Author and of its Member.            *)
(***************************************************************************)
\* author.firstName = value, member.firstName = value (p: the Author or the
\* Member)
Person_setFirstName(p, value) ==
    IF ~AcceptsName(value) THEN Throw("First name cannot be empty", p)
    ELSE Ok([p EXCEPT !.firstName = value])

\* author.lastName = value, member.lastName = value
Person_setLastName(p, value) ==
    IF ~AcceptsName(value) THEN Throw("Last name cannot be empty", p)
    ELSE Ok([p EXCEPT !.lastName = value])

\* author.email = value, member.email = value
Person_setEmail(p, value) ==
    IF ~AcceptsEmail(value) THEN Throw("Invalid email format", p)
    ELSE Ok([p EXCEPT !.email = value])

\* book.title = value
Book_setTitle(b, value) ==
    IF ~AcceptsName(value) THEN Throw("Title cannot be empty", b)
    ELSE Ok([b EXCEPT !.title = value])

\* book.isbn = value
Book_setIsbn(b, value) ==
    IF ~AcceptsIsbn(value)
    THEN Throw("ISBN must be at least 10 characters", b)
    ELSE Ok([b EXCEPT !.isbn = value])

\* The setters, by the name of the field they assign.
Person_set(field, p, value) ==
    CASE field = "firstName" -> Person_setFirstName(p, value)
      [] field = "lastName" -> Person_setLastName(p, value)
      [] field = "email" -> Person_setEmail(p, value)

Book_set(field, b, value) ==
    CASE field = "title" -> Book_setTitle(b, value)
      [] field = "isbn" -> Book_setIsbn(b, value)

\* Values assigned: blank ones, ones with white space around them, emails
\* with and without an '@', ISBNs that are long enough only untrimmed.
ValuesOf(field) ==
    CASE field \in {"firstName", "lastName", "title"} ->
           {"", " ", "\t", " John "}
      [] field = "email" -> {"john.doe", "a@b.com"}
      [] field = "isbn" -> {"12345", " 12345678 ", " 978-0451524935"}

SetterResult(who, field, value, error) ==
    [NoEntityResult EXCEPT !.op = who, !.status = field, !.arg = value,
                           !.error = error, !.before = ent]

\* loan.book.author.<field> = value
Entity_setAuthorField(field, value) ==
    /\ LET r == Person_set(field, ent.book.author, value)
       IN  /\ ent' = [ent EXCEPT !.book.author = r.value]
           /\ eres' = SetterResult("Author.set", field, value, r.error)
    /\ UNCHANGED <<store, now, tz, calls, last>>

\* loan.member.<field> = value
Entity_setMemberField(field, value) ==
    /\ LET r == Person_set(field, ent.member, value)
       IN  /\ ent' = [ent EXCEPT !.member = r.value]
           /\ eres' = SetterResult("Member.set", field, value, r.error)
    /\ UNCHANGED <<store, now, tz, calls, last>>

\* loan.book.<field> = value
Entity_setBookField(field, value) ==
    /\ LET r == Book_set(field, ent.book, value)
       IN  /\ ent' = [ent EXCEPT !.book = r.value]
           /\ eres' = SetterResult("Book.set", field, value, r.error)
    /\ UNCHANGED <<store, now, tz, calls, last>>

SetterInit ==
    /\ authors = << >>
    /\ books = << >>
    /\ members = << >>
    /\ loans = << >>
    /\ now = MS_PER_HOUR
    /\ tz \in {z \in TimeZones : z.before = z.after}
    /\ calls = [s \in Slots |-> IdleFrame]
    /\ last = NoResult
    /\ ent = Loan(Book("1984", "978-0747532699",
                       Author("J.K.", "Rowling", "jk.rowling@example.com", 1),
                       1, TRUE),
                  Member("John", "Doe", "jk.rowling@example.com", 1),
                  NULL, NULL, NULL, NULL, now, tz)
    /\ eres = NoEntityResult

SetterNext ==
    \/ \E f \in {"firstName", "lastName", "email"} : \E v \in ValuesOf(f) :
          Entity_setAuthorField(f, v)
    \/ \E f \in {"firstName", "lastName", "email"} : \E v \in ValuesOf(f) :
          Entity_setMemberField(f, v)
    \/ \E f \in {"title", "isbn"} : \E v \in ValuesOf(f) :
          Entity_setBookField(f, v)

SetterSpec == SetterInit /\ [][SetterNext]_vars

\* The part of a string between its first and its last character that is
\* not white space, counted without trimming anything.
Inked(value) ==
    {k \in 1 .. Len(Characters(value)) :
        Characters(value)[k] \notin WhiteSpace}
InkedLength(value) ==
    IF Inked(value) = {} THEN 0
    ELSE (CHOOSE k \in Inked(value) : \A j \in Inked(value) : j <= k)
         - (CHOOSE k \in Inked(value) : \A j \in Inked(value) : j >= k) + 1

\* The values a setter must refuse, and its error message.
Refused(field, value) ==
    CASE field \in {"firstName", "lastName", "title"} -> Inked(value) = {}
      [] field = "email" ->
           \A k \in 1 .. Len(Characters(value)) : Characters(value)[k] # "@"
      [] field = "isbn" -> InkedLength(value) < 10
ValidationError(field) ==
    CASE field = "firstName" -> "First name cannot be empty"
      [] field = "lastName" -> "Last name cannot be empty"
      [] field = "title" -> "Title cannot be empty"
      [] field = "email" -> "Invalid email format"
      [] field = "isbn" -> "ISBN must be at least 10 characters"

\* The Loan that eres.before becomes when the field named in eres holds
\* the value given and nothing else has changed.
Assigned ==
    CASE eres.op = "Author.set" ->
           [eres.before EXCEPT !.book.author[eres.status] = eres.arg]
      [] eres.op = "Member.set" ->
           [eres.before EXCEPT !.member[eres.status] = eres.arg]
      [] eres.op = "Book.set" ->
           [eres.before EXCEPT !.book[eres.status] = eres.arg]

\* C34: a setter of Author or Member (firstName, lastName, email) or of
\* Book (title, isbn) throws its validation error exactly when the value
\* is blank (name, title), has no '@' (email) or is shorter than 10
\* characters once trimmed (isbn), and then leaves the whole entity as it
\* was; otherwise the field holds exactly the value given, white space
\* included, and nothing else of the entity has changed.
C34_ValidatedSetters ==
    eres.op \in {"Author.set", "Member.set", "Book.set"}
    => IF Refused(eres.status, eres.arg)
       THEN /\ eres.error = ValidationError(eres.status)
            /\ ent = eres.before
       ELSE /\ eres.error = ""
            /\ ent = Assigned

\* C34 witness: an ISBN of 10 characters, 8 of them once trimmed, was
\* refused after a name with white space around it was stored as given.
C34_Witness ==
    /\ eres.op = "Book.set" /\ eres.status = "isbn"
    /\ eres.arg = " 12345678 "
    /\ eres.error = "ISBN must be at least 10 characters"
    /\ ent.book.isbn = "978-0747532699"
    /\ ent.member.firstName = " John "

(***************************************************************************)
(* The order of the checks of borrowBook (specification OrderSpec): books  *)
(* are also marked through their repository, so that a book is unavailable *)
(* while no member exists.                                                 *)
(***************************************************************************)
OrderNext ==
    \/ \E e \in AuthorEmails :
          LibraryService_registerAuthor("J.K.", "Rowling", e)
    \/ \E i \in ConcIsbns, a \in AuthorIds :
          LibraryService_addBook("1984", i, a)
    \/ \E e \in MemberEmails :
          LibraryService_registerMember("John", "Doe", e)
    \/ \E id \in 1 .. Cardinality(ConcIsbns), v \in BOOLEAN :
          AllIdle /\ Call_BookRepository_update(id, v)
    \/ \E s \in Slots, b \in 1 .. Cardinality(ConcIsbns) + 1,
          m \in MemberIds :
          LoanService_borrowBook_findBook(s, b, m, 1)
    \/ \E s \in Slots : LoanService_borrowBook_findMember(s)
    \/ \E s \in Slots : LoanService_borrowBook_updateBook(s)
    \/ \E s \in Slots : LoanService_borrowBook_createLoan(s)
    \/ Tick

OrderSpec == ConcInit /\ [][OrderNext]_vars

\* C35: borrowBook(b, m) with no member row m: it throws the
\* book-not-found error when no book row b exists, and the unavailable
\* error when the row exists and is unavailable, the call ending there
\* with the store untouched, before the round trip that looks the member
\* up; that round trip is made only by a call that found its book
\* available, and only it throws the member-not-found error.
C35_BookCheckedBeforeMember ==
    [][\A s \in Slots :
          /\ \A b \in BookIds, m \in MemberIds :
                (LoanService_borrowBook_findBook(s, b, m, 1)
                   /\ m \notin DOMAIN members)
                => /\ b \notin DOMAIN books
                         => /\ calls'[s].pc = "idle"
                            /\ last'.error = "Book with ID % not found"
                   /\ (b \in DOMAIN books /\ ~books[b].available)
                         => /\ calls'[s].pc = "idle"
                            /\ last'.op = "borrowBook"
                            /\ last'.error
                                  = "Book is not available for borrowing"
                            /\ last'.error # "Member with ID % not found"
                            /\ store' = store
                   /\ (b \in DOMAIN books /\ books[b].available)
                         => /\ calls'[s].pc = "borrow_findMember"
                            /\ last' = last
          /\ LoanService_borrowBook_findMember(s)
                => /\ calls[s].bookId \in DOMAIN books
                   /\ calls[s].book.available
                   /\ calls[s].memberId \notin DOMAIN members
                         => /\ last'.op = "borrowBook"
                            /\ last'.error = "Member with ID % not found"
                            /\ last'.errorId = calls[s].memberId]_vars

\* C35 witness: borrowBook has just thrown the unavailable error for a book
\* marked unavailable while there is no member row at all.
C35_Witness ==
    /\ AllIdle
    /\ last.op = "borrowBook"
    /\ last.error = "Book is not available for borrowing"
    /\ members = << >>
    /\ \E b \in DOMAIN books : ~books[b].available

\* The returnBook calls in flight that loaded their loan before another
\* call returned it and a later borrowBook lent the book out again: the
\* loan they hold is returned in the store, and a later loan of the same
\* book is active.
StaleReturns(pc) ==
    {s \in Slots :
        /\ calls[s].pc = pc
        /\ calls[s].loanId \in DOMAIN loans
        /\ loans[calls[s].loanId].returnDate # NULL
        /\ \E l \in ActiveLoans(loans[calls[s].loanId].bookId) :
              l > calls[s].loanId}

\* C36: a returnBook call that loaded loan L of book b and was overtaken by
\* a completed returnBook(L) and a completed borrowBook of b still writes
\* b's row as available at its next round trip, without touching a loan
\* row, and goes on to its loan update: b's row is available while a loan
\* row of b has returnDate unset.
C36_StaleReturnFreesBook ==
    [][\A s \in StaleReturns("return_updateBook") :
          LoanService_returnBook_updateBook(s)
          => /\ books'[loans[calls[s].loanId].bookId].available
             /\ loans' = loans
             /\ ActiveLoans(loans[calls[s].loanId].bookId)' # {}
             /\ calls'[s].pc = "return_updateLoan"
             /\ last' = last]_vars

\* C36 witness: the overtaken returnBook call has written the book row; the
\* row is available, the loan the call holds is returned and a later loan
\* of the book is active.
C36_Witness ==
    \E s \in StaleReturns("return_updateLoan") :
       /\ books[loans[calls[s].loanId].bookId].available
       /\ last.op = "borrowBook" /\ last.error = ""
       /\ last.result.id \in ActiveLoans(loans[calls[s].loanId].bookId)

\* The errors of a read that finds a row but not the row it refers to.
HydrationErrors ==
    {"Author with ID % not found", "Book or Member not found for loan",
     "Failed to create loan", "Failed to update loan"}

\* C37: from the empty store, whatever registerAuthor, addBook,
\* registerMember, borrowBook and returnBook calls were made, overlapping
\* ones included, every book row's authorId is the id of an author row and
\* every loan row's bookId and memberId are ids of a book row and a member
\* row; borrowBook and returnBook never throw a hydration error, and
\* every read of a book or a loan, by id or of all rows, returns its
\* entities without an error.
C37_ReferencesResolve ==
    /\ \A b \in DOMAIN books : books[b].authorId \in DOMAIN authors
    /\ \A l \in DOMAIN loans :
          /\ loans[l].bookId \in DOMAIN books
          /\ loans[l].memberId \in DOMAIN members
    /\ last.op \in {"borrowBook", "returnBook"}
          => last.error \notin HydrationErrors
    /\ \A b \in DOMAIN books :
          /\ BookRepository_findById(b).error = ""
          /\ BookRepository_findById(b).value.author.id = books[b].authorId
    /\ \A l \in DOMAIN loans :
          /\ LoanRepository_findById(l).error = ""
          /\ LoanRepository_findById(l).value.book.id = loans[l].bookId
          /\ LoanRepository_findById(l).value.member.id = loans[l].memberId
    /\ Len(BookRepository_findAll.list) = Cardinality(DOMAIN books)
    /\ LoanRepository_findAll.error = ""
    /\ Len(LoanRepository_findAll.list) = Cardinality(DOMAIN loans)

\* C37 witness: two loans were made and one was returned, and the read of
\* all loans returns both with their book, its author and their member.
C37_Witness ==
    /\ AllIdle
    /\ last.op = "returnBook" /\ last.error = ""
    /\ Cardinality(DOMAIN loans) = 2
    /\ Len(LoanRepository_findAll.list) = 2
    /\ \A k \in 1 .. 2 :
          /\ LoanRepository_findAll.list[k].book.author.id \in DOMAIN authors
          /\ LoanRepository_findAll.list[k].member.id \in DOMAIN members

(***************************************************************************)
(* E-books through the BookRepository (specification EBookSpec)            *)
(***************************************************************************)
\* new EBook(title, isbn, author, fileSize, format, _, _, id, available): a
\* Book with a file size (in tenths of a megabyte) and a format.
EBook(title, isbn, author, fileSize, format, id, available) ==
    [id |-> id, title |-> title, isbn |-> isbn, author |-> author,
     available |-> available, fileSize |-> fileSize, format |-> format]

\* b instanceof EBook
IsEBook(b) == "format" \in DOMAIN b

\* Book.getInfo(), as the parts of the string, author.getFullName() among
\* them (the year in parentheses, which an EBook renders as a Book does,
\* left out)
Book_getInfo(b) ==
    <<b.title, " by ">> \o <<b.author.firstName, " ", b.author.lastName>>

\* EBook.getInfo(): super.getInfo() followed by the format and the size
EBook_getInfo(b) ==
    Book_getInfo(b) \o <<" [E-Book: ", b.format, ", ", b.fileSize, "MB]">>

\* b.getInfo(), dispatched on the class of b
getInfo(b) == IF IsEBook(b) THEN EBook_getInfo(b) ELSE Book_getInfo(b)

\* File sizes (2.5 MB and 120 MB) and formats of the e-books.
Payloads == {<<25, "EPUB">>, <<1200, "PDF">>}

\* bookRepository.create(new EBook(title, isbn, author, fileSize, format)),
\* as src/index.ts does.
Call_BookRepository_create_EBook(title, isbn, authorId, size, format, fk) ==
    LET b == EBook(title, isbn, AuthorRef(authorId), size, format, NULL, TRUE)
        created == BookRepository_create(b)
        refused == /\ fk
                   /\ authorId \notin DOMAIN authors
                   /\ created.error \notin StoreErrors
    IN  /\ books' = IF refused THEN books ELSE created.table
        /\ Reply("BookRepository.create", b,
                 IF refused THEN "FOREIGN KEY constraint failed"
                 ELSE created.error,
                 IF ~refused /\ created.error = "Author with ID % not found"
                 THEN authorId ELSE NULL,
                 IF refused THEN NoBook ELSE created.value, << >>, 0)
        /\ UNCHANGED <<authors, members, loans, now, tz, calls, ent, eres>>

\* Every book is made as an EBook.
EBookNext ==
    \/ \E e \in BookAuthorEmails :
          Call_AuthorRepository_create("J.K.", "Rowling", e)
    \/ \E i \in Isbns, a \in 1 .. Cardinality(BookAuthorEmails),
          p \in Payloads, fk \in BOOLEAN :
          Call_BookRepository_create_EBook("1984", i, a, p[1], p[2], fk)
    \/ \E id \in BookIds, v \in BOOLEAN : Call_BookRepository_update(id, v)
    \/ \E id \in BookIds : Call_BookRepository_findById(id)

EBookSpec == StillInit /\ [][EBookNext]_vars

====
